---- MODULE Spec2Model ----
(***************************************************************************)
(* Google Calendar & Tasks MCP server (mako10k/google-calendar-todo-mcp).  *)
(*                                                                         *)
(* The model follows the three source files:                               *)
(*   src/unnamed/part_000   server: schemas, request translation,          *)
(*                          response normalisers, the tool registry        *)
(*   src/unnamed/part_001   command line entry point (run)                 *)
(*   src/src/googleClient.ts  authorize and the token cache                *)
(*                                                                         *)
(* JavaScript values are tagged records, so that undefined, null, strings, *)
(* numbers, arrays and objects can be told apart and compared.             *)
(***************************************************************************)
EXTENDS Integers, Sequences, FiniteSets, TLC

(***************************************************************************)
(* Bounds of the model.                                                    *)
(***************************************************************************)
\* Invocations that may be in flight at the same time (slots of inv).
MaxInFlight == 2
\* Largest reading of the clock (milliseconds since the epoch).
MaxClock == 2
\* Optional fields a caller supplies at once in the request-body specification.
MaxSupplied == 2

(***************************************************************************)
(* JavaScript values.                                                      *)
(***************************************************************************)
Undefined == [t |-> "undefined"]
Null == [t |-> "null"]
Str(s) == [t |-> "str", v |-> s]
Num(n) == [t |-> "num", v |-> n, int |-> TRUE]
\* A number that is not an integer (n + 1/2).
Frac(n) == [t |-> "num", v |-> n, int |-> FALSE]
Bool(b) == [t |-> "bool", v |-> b]
Arr(s) == [t |-> "arr", v |-> s]
Obj(f) == [t |-> "obj", v |-> f]
EmptyObj == Obj([k \in {} |-> Undefined])

\* o.k of an object: undefined when the key is not there.
Get(o, k) == IF k \in DOMAIN o.v THEN o.v[k] ELSE Undefined
\* The key carries a value (a key set to undefined carries none).
Has(o, k) == Get(o, k) # Undefined
\* o.k = val
Put(o, k, val) == Obj((k :> val) @@ o.v)
\* The keys of an object that carry a value.
Keys(o) == {k \in DOMAIN o.v : o.v[k] # Undefined}

\* JavaScript truthiness (if (x), x ? a : b, x || y, !x).
Truthy(x) ==
    CASE x.t = "undefined" -> FALSE
      [] x.t = "null" -> FALSE
      [] x.t = "bool" -> x.v
      [] x.t = "num" -> x.v # 0 \/ ~x.int
      [] x.t = "str" -> x.v # ""
      [] OTHER -> TRUE

\* a ?? b
Coalesce(a, b) == IF a.t \in {"undefined", "null"} THEN b ELSE a

\* typeof x
TypeOf(x) ==
    CASE x.t = "undefined" -> "undefined"
      [] x.t = "str" -> "string"
      [] x.t = "num" -> "number"
      [] x.t = "bool" -> "boolean"
      [] OTHER -> "object"

\* The i-th character of a string.
Ch(s, i) == SubSeq(s, i, i)
IsDigit(c) == c \in {"0", "1", "2", "3", "4", "5", "6", "7", "8", "9"}

\* DATE_ONLY_REGEX = /^\d{4}-\d{2}-\d{2}$/ tested on a string.
DATE_ONLY_REGEX(s) ==
    /\ Len(s) = 10
    /\ \A i \in {1, 2, 3, 4, 6, 7, 9, 10} : IsDigit(Ch(s, i))
    /\ Ch(s, 5) = "-"
    /\ Ch(s, 8) = "-"

\* propertyFilterRegex = /^[^=]+=[^=]+$/ tested on a string.
propertyFilterRegex(s) ==
    /\ Cardinality({i \in 1..Len(s) : Ch(s, i) = "="}) = 1
    /\ Len(s) >= 3
    /\ Ch(s, 1) # "="
    /\ Ch(s, Len(s)) # "="

(***************************************************************************)
(* Response normalisers and request mappers.                               *)
(***************************************************************************)
EventKeys ==
    {"id", "status", "summary", "description", "location", "start", "end",
     "recurrence", "recurringEventId", "originalStartTime", "creator",
     "organizer", "attendees", "htmlLink", "hangoutLink", "conferenceData",
     "attachments", "transparency", "visibility", "colorId", "reminders",
     "updated", "created"}

\* A faulty mapEvent, which passes the entity through as received.
mapEventRaw(event) == event

mapEvent(event) == Obj([k \in EventKeys |-> Coalesce(Get(event, k), Null)])

AttendeeKeys ==
    {"email", "optional", "displayName", "responseStatus", "comment",
     "additionalGuests"}

\* attendees?.map(...)
mapAttendeesForRequest(attendees) ==
    IF attendees = Undefined THEN Undefined
    ELSE Arr([i \in 1..Len(attendees.v) |->
                Obj([k \in AttendeeKeys |-> Get(attendees.v[i], k)])])

\* A faulty mapReminders, which sends the structure even when it is empty.
mapRemindersKeepEmpty(reminders) ==
    IF ~Truthy(reminders) THEN Undefined
    ELSE LET ovIn == Get(reminders, "overrides")
             m1 == IF Get(reminders, "useDefault") # Undefined
                   THEN Put(EmptyObj, "useDefault", Get(reminders, "useDefault"))
                   ELSE EmptyObj
         IN  IF ovIn # Undefined /\ Len(ovIn.v) > 0
             THEN Put(m1, "overrides",
                      Arr([i \in 1..Len(ovIn.v) |->
                             Obj([method |-> Coalesce(Get(ovIn.v[i], "method"), Str("popup")),
                                  minutes |-> Get(ovIn.v[i], "minutes")])]))
             ELSE m1

\* mapReminders
mapReminders(reminders) ==
    IF ~Truthy(reminders) THEN Undefined
    ELSE LET ovIn == Get(reminders, "overrides")
             overrides ==
                 IF ovIn = Undefined THEN Undefined
                 ELSE Arr([i \in 1..Len(ovIn.v) |->
                         Obj([method |-> Coalesce(Get(ovIn.v[i], "method"), Str("popup")),
                              minutes |-> Get(ovIn.v[i], "minutes")])])
             m0 == EmptyObj
             m1 == IF Get(reminders, "useDefault") # Undefined
                   THEN Put(m0, "useDefault", Get(reminders, "useDefault"))
                   ELSE m0
             m2 == IF Truthy(overrides) /\ Len(overrides.v) > 0
                   THEN Put(m1, "overrides", overrides)
                   ELSE m1
         IN  IF Cardinality(DOMAIN m2.v) > 0 THEN m2 ELSE Undefined

\* A faulty mapExtendedProperties, which sends the value as given.
mapExtendedPropertiesAsGiven(extendedProperties) ==
    IF ~Truthy(extendedProperties) THEN Undefined ELSE extendedProperties

\* mapExtendedProperties
mapExtendedProperties(extendedProperties) ==
    IF ~Truthy(extendedProperties) THEN Undefined
    ELSE LET priv == Get(extendedProperties, "private")
             shared == Get(extendedProperties, "shared")
             hasPrivate == Truthy(priv) /\ Cardinality(DOMAIN priv.v) > 0
             hasShared == Truthy(shared) /\ Cardinality(DOMAIN shared.v) > 0
         IN  IF ~hasPrivate /\ ~hasShared THEN Undefined
             ELSE Obj([private |-> IF hasPrivate THEN priv ELSE Undefined,
                       shared |-> IF hasShared THEN shared ELSE Undefined])

\* The fields applyCommonEventFields copies, and what it stores for each.
CommonEventFields ==
    {"description", "location", "colorId", "recurrence", "transparency",
     "visibility", "attendees", "reminders", "conferenceData",
     "extendedProperties", "guestsCanInviteOthers", "guestsCanModify",
     "guestsCanSeeOtherGuests", "anyoneCanAddSelf", "attachments", "source"}

CommonFieldValue(input, k) ==
    CASE k = "attendees" -> mapAttendeesForRequest(Get(input, k))
      [] k = "reminders" -> mapReminders(Get(input, k))
      [] k = "extendedProperties" -> mapExtendedProperties(Get(input, k))
      [] OTHER -> Get(input, k)

applyCommonEventFields(target, input) ==
    LET set == {k \in CommonEventFields : Get(input, k) # Undefined}
    IN  Obj([k \in (DOMAIN target.v) \cup set |->
               IF k \in set THEN CommonFieldValue(input, k) ELSE target.v[k]])

\* toJsonContent: JSON.stringify drops the members whose value is undefined
\* and writes an undefined array element as null.
RECURSIVE Stringify(_)
Stringify(x) ==
    CASE x.t = "obj" ->
           Obj([k \in {j \in DOMAIN x.v : x.v[j] # Undefined} |-> Stringify(x.v[k])])
      [] x.t = "arr" ->
           Arr([i \in 1..Len(x.v) |->
                  IF x.v[i] = Undefined THEN Null ELSE Stringify(x.v[i])])
      [] OTHER -> x

toJsonContent(data) == <<[type |-> "text", text |-> Stringify(data)]>>

\* A faulty toGoogleDate, which adds every time zone that is not undefined.
toGoogleDateAlways(value, timeZone) ==
    IF DATE_ONLY_REGEX(value.v) THEN Obj([date |-> value])
    ELSE IF timeZone # Undefined
         THEN Obj([dateTime |-> value, timeZone |-> timeZone])
         ELSE Obj([dateTime |-> value])

toGoogleDate(value, timeZone) ==
    IF DATE_ONLY_REGEX(value.v) THEN Obj([date |-> value])
    ELSE IF Truthy(timeZone)
         THEN Obj([dateTime |-> value, timeZone |-> timeZone])
         ELSE Obj([dateTime |-> value])

(***************************************************************************)
(* Input schemas (zod).  A schema is a record: k is the kind; opt marks    *)
(* .optional(), def carries the value of .default(); an object's shape is  *)
(* the sequence of its <<key, schema>> pairs in declaration order.         *)
(***************************************************************************)
zString == [k |-> "string"]
zStringMin(n) == [k |-> "string", min |-> n]
zEmail == [k |-> "string", fmt |-> "email"]
zUrl == [k |-> "string", fmt |-> "url"]
zBoolean == [k |-> "boolean"]
zIntMin(lo) == [k |-> "number", min |-> lo]
zInt(lo, hi) == [k |-> "number", min |-> lo, max |-> hi]
zEnum(values) == [k |-> "enum", values |-> values]
zArray(of) == [k |-> "array", of |-> of, min |-> 0]
zArrayMin(of, n) == [k |-> "array", of |-> of, min |-> n]
zObject(shape) == [k |-> "object", shape |-> shape]
zRecordString == [k |-> "record"]
Optional(s) == [opt |-> TRUE] @@ s
Default(s, d) == [def |-> d] @@ s
\* a.merge(b): the keys of b replace those of a
Merge(a, b) ==
    zObject(SelectSeq(a.shape,
                      LAMBDA p : \A i \in 1..Len(b.shape) : b.shape[i][1] # p[1])
            \o b.shape)

propertyFilterSchema == [k |-> "string", fmt |-> "keyvalue"]

attendeeSchema ==
    zObject(<< <<"email", zEmail>>,
               <<"optional", Optional(zBoolean)>>,
               <<"displayName", Optional(zString)>>,
               <<"responseStatus",
                 Optional(zEnum({"needsAction", "declined", "tentative", "accepted"}))>>,
               <<"comment", Optional(zString)>>,
               <<"additionalGuests", Optional(zIntMin(0))>> >>)

reminderOverrideSchema ==
    zObject(<< <<"method", Optional(zEnum({"email", "popup"}))>>,
               <<"minutes", zIntMin(0)>> >>)

remindersSchema ==
    zObject(<< <<"useDefault", Optional(zBoolean)>>,
               <<"overrides", Optional(zArrayMin(reminderOverrideSchema, 1))>> >>)

extendedPropertiesSchema ==
    Optional(zObject(<< <<"private", Optional(zRecordString)>>,
                        <<"shared", Optional(zRecordString)>> >>))

attachmentsSchema ==
    Optional(zArray(zObject(<< <<"fileUrl", zUrl>>,
                               <<"title", Optional(zString)>>,
                               <<"mimeType", Optional(zString)>>,
                               <<"iconLink", Optional(zUrl)>>,
                               <<"fileId", Optional(zString)>> >>)))

sourceSchema ==
    Optional(zObject(<< <<"title", zString>>, <<"url", zUrl>> >>))

conferenceDataSchema == Optional([k |-> "custom"])

commonEventFieldsSchema ==
    zObject(<< <<"description", Optional(zString)>>,
               <<"location", Optional(zString)>>,
               <<"colorId", Optional(zString)>>,
               <<"recurrence", Optional(zArray(zString))>>,
               <<"transparency", Optional(zEnum({"opaque", "transparent"}))>>,
               <<"visibility",
                 Optional(zEnum({"default", "public", "private", "confidential"}))>>,
               <<"attendees", Optional(zArray(attendeeSchema))>>,
               <<"reminders", Optional(remindersSchema)>>,
               <<"conferenceData", conferenceDataSchema>>,
               <<"extendedProperties", extendedPropertiesSchema>>,
               <<"guestsCanInviteOthers", Optional(zBoolean)>>,
               <<"guestsCanModify", Optional(zBoolean)>>,
               <<"guestsCanSeeOtherGuests", Optional(zBoolean)>>,
               <<"anyoneCanAddSelf", Optional(zBoolean)>>,
               <<"attachments", attachmentsSchema>>,
               <<"source", sourceSchema>> >>)

sendUpdatesSchema == Optional(zEnum({"all", "externalOnly", "none"}))
orderBySchema == Optional(zEnum({"startTime", "updated"}))

listEventsInput ==
    zObject(<< <<"calendarId", Default(zString, Str("primary"))>>,
               <<"timeMin", Optional(zString)>>,
               <<"timeMax", Optional(zString)>>,
               <<"maxResults", Optional(zInt(1, 2500))>>,
               <<"query", Optional(zString)>>,
               <<"singleEvents", Optional(zBoolean)>>,
               <<"orderBy", orderBySchema>>,
               <<"showDeleted", Optional(zBoolean)>>,
               <<"timeZone", Optional(zString)>>,
               <<"pageToken", Optional(zString)>>,
               <<"syncToken", Optional(zString)>>,
               <<"privateExtendedProperty", Optional(zArray(propertyFilterSchema))>>,
               <<"sharedExtendedProperty", Optional(zArray(propertyFilterSchema))>> >>)

searchEventsInput ==
    zObject(<< <<"calendarIds",
                 Default(zArrayMin(zString, 1), Arr(<<Str("primary")>>))>>,
               <<"query", zStringMin(1)>>,
               <<"timeMin", Optional(zString)>>,
               <<"timeMax", Optional(zString)>>,
               <<"maxResultsPerCalendar", Optional(zInt(1, 2500))>>,
               <<"timeZone", Optional(zString)>>,
               <<"orderBy", orderBySchema>>,
               <<"showDeleted", Optional(zBoolean)>>,
               <<"singleEvents", Optional(zBoolean)>>,
               <<"privateExtendedProperty", Optional(zArray(propertyFilterSchema))>>,
               <<"sharedExtendedProperty", Optional(zArray(propertyFilterSchema))>> >>)

createEventInput ==
    Merge(zObject(<< <<"calendarId", Default(zString, Str("primary"))>>,
                     <<"summary", zString>>,
                     <<"start", zString>>,
                     <<"end", zString>>,
                     <<"timeZone", Optional(zString)>>,
                     <<"eventId", Optional(zString)>>,
                     <<"sendUpdates", sendUpdatesSchema>> >>),
          commonEventFieldsSchema)

updateEventInput ==
    Merge(zObject(<< <<"calendarId", Default(zString, Str("primary"))>>,
                     <<"eventId", zString>>,
                     <<"summary", Optional(zString)>>,
                     <<"start", Optional(zString)>>,
                     <<"end", Optional(zString)>>,
                     <<"timeZone", Optional(zString)>>,
                     <<"sendUpdates", sendUpdatesSchema>> >>),
          commonEventFieldsSchema)

listEventInstancesInput ==
    zObject(<< <<"calendarId", Default(zString, Str("primary"))>>,
               <<"recurringEventId", zString>>,
               <<"timeMin", Optional(zString)>>,
               <<"timeMax", Optional(zString)>>,
               <<"maxResults", Optional(zInt(1, 2500))>>,
               <<"pageToken", Optional(zString)>>,
               <<"showDeleted", Optional(zBoolean)>>,
               <<"timeZone", Optional(zString)>> >>)

updateEventInstanceInput ==
    Merge(zObject(<< <<"calendarId", Default(zString, Str("primary"))>>,
                     <<"instanceId", zString>>,
                     <<"summary", Optional(zString)>>,
                     <<"start", Optional(zString)>>,
                     <<"end", Optional(zString)>>,
                     <<"timeZone", Optional(zString)>>,
                     <<"sendUpdates", sendUpdatesSchema>> >>),
          commonEventFieldsSchema)

deleteEventInput ==
    zObject(<< <<"calendarId", Default(zString, Str("primary"))>>,
               <<"eventId", zString>>,
               <<"sendUpdates", sendUpdatesSchema>> >>)

deleteEventInstanceInput ==
    zObject(<< <<"calendarId", Default(zString, Str("primary"))>>,
               <<"instanceId", zString>>,
               <<"sendUpdates", sendUpdatesSchema>> >>)

listTasksInput ==
    zObject(<< <<"tasklistId", Default(zString, Str("@default"))>>,
               <<"showCompleted", Optional(zBoolean)>>,
               <<"showDeleted", Optional(zBoolean)>>,
               <<"maxResults", Optional(zInt(1, 100))>>,
               <<"dueMin", Optional(zString)>>,
               <<"dueMax", Optional(zString)>> >>)

createTaskInput ==
    zObject(<< <<"tasklistId", Default(zString, Str("@default"))>>,
               <<"title", zString>>,
               <<"notes", Optional(zString)>>,
               <<"due", Optional(zString)>> >>)

updateTaskInput ==
    zObject(<< <<"tasklistId", Default(zString, Str("@default"))>>,
               <<"taskId", zString>>,
               <<"title", Optional(zString)>>,
               <<"notes", Optional(zString)>>,
               <<"due", Optional(zString)>>,
               <<"status", Optional(zEnum({"needsAction", "completed"}))>> >>)

completeTaskInput ==
    zObject(<< <<"tasklistId", Default(zString, Str("@default"))>>,
               <<"taskId", zString>> >>)

deleteTaskInput ==
    zObject(<< <<"tasklistId", Default(zString, Str("@default"))>>,
               <<"taskId", zString>> >>)

CalendarTools ==
    {"list-calendars", "list-events", "search-events", "create-event",
     "update-event", "list-event-instances", "update-event-instance",
     "delete-event", "delete-event-instance"}
TaskTools ==
    {"list-tasklists", "list-tasks", "create-task", "update-task",
     "complete-task", "delete-task"}
ToolNames == CalendarTools \cup TaskTools

\* The schema each tool is registered with.
SchemaOf(name) ==
    CASE name = "list-calendars" -> zObject(<<>>)
      [] name = "list-events" -> listEventsInput
      [] name = "search-events" -> searchEventsInput
      [] name = "create-event" -> createEventInput
      [] name = "update-event" -> updateEventInput
      [] name = "list-event-instances" -> listEventInstancesInput
      [] name = "update-event-instance" -> updateEventInstanceInput
      [] name = "delete-event" -> deleteEventInput
      [] name = "delete-event-instance" -> deleteEventInstanceInput
      [] name = "list-tasklists" -> zObject(<<>>)
      [] name = "list-tasks" -> listTasksInput
      [] name = "create-task" -> createTaskInput
      [] name = "update-task" -> updateTaskInput
      [] name = "complete-task" -> completeTaskInput
      [] name = "delete-task" -> deleteTaskInput

(***************************************************************************)
(* schema.parse: the issues of a value, and the parsed output (defaults    *)
(* filled in, unknown keys of an object stripped).                         *)
(***************************************************************************)
\* The type zod names in "received ...".
ZodType(x) ==
    CASE x.t = "undefined" -> "undefined"
      [] x.t = "null" -> "null"
      [] x.t = "str" -> "string"
      [] x.t = "num" -> "number"
      [] x.t = "bool" -> "boolean"
      [] x.t = "arr" -> "array"
      [] OTHER -> "object"

\* z.string().email() and .url() are the library's tests; they are modelled
\* by the shape the library requires at the least: one "@" inside the
\* string, a scheme followed by ":".
IsEmail(s) ==
    /\ Cardinality({i \in 1..Len(s) : Ch(s, i) = "@"}) = 1
    /\ Len(s) >= 3
    /\ Ch(s, 1) # "@"
    /\ Ch(s, Len(s)) # "@"
IsUrl(s) == \E i \in 2..Len(s) : Ch(s, i) = ":" /\ i < Len(s)

StringIssues(s, str) ==
    (IF "min" \in DOMAIN s /\ Len(str) < s.min
     THEN <<"String must contain at least " \o ToString(s.min) \o " character(s)">>
     ELSE <<>>)
    \o (IF "fmt" \in DOMAIN s
        THEN CASE s.fmt = "keyvalue" ->
                    IF propertyFilterRegex(str) THEN <<>>
                    ELSE <<"Must be in key=value format">>
               [] s.fmt = "email" -> IF IsEmail(str) THEN <<>> ELSE <<"Invalid email">>
               [] s.fmt = "url" -> IF IsUrl(str) THEN <<>> ELSE <<"Invalid url">>
        ELSE <<>>)

\* A faulty number check, which ignores the upper limit.
NumberIssuesNoMax(s, x) ==
    (IF x.int THEN <<>> ELSE <<"Expected integer, received float">>)
    \o (IF x.v < s.min
        THEN <<"Number must be greater than or equal to " \o ToString(s.min)>>
        ELSE <<>>)

NumberIssues(s, x) ==
    (IF x.int THEN <<>> ELSE <<"Expected integer, received float">>)
    \o (IF x.v < s.min
        THEN <<"Number must be greater than or equal to " \o ToString(s.min)>>
        ELSE <<>>)
    \o (IF "max" \in DOMAIN s /\ (x.v > s.max \/ (~x.int /\ x.v >= s.max))
        THEN <<"Number must be less than or equal to " \o ToString(s.max)>>
        ELSE <<>>)

RECURSIVE Flatten(_)
Flatten(ss) == IF ss = <<>> THEN <<>> ELSE Head(ss) \o Flatten(Tail(ss))

Expected(what, x) == <<"Expected " \o what \o ", received " \o ZodType(x)>>

RECURSIVE Issues(_, _)
Issues(s, x) ==
    IF x = Undefined
    THEN IF "opt" \in DOMAIN s \/ "def" \in DOMAIN s THEN <<>> ELSE <<"Required">>
    ELSE CASE s.k = "string" ->
                IF x.t # "str" THEN Expected("string", x) ELSE StringIssues(s, x.v)
           [] s.k = "number" ->
                IF x.t # "num" THEN Expected("number", x) ELSE NumberIssues(s, x)
           [] s.k = "boolean" ->
                IF x.t # "bool" THEN Expected("boolean", x) ELSE <<>>
           [] s.k = "enum" ->
                IF x.t = "str" /\ x.v \in s.values THEN <<>>
                ELSE <<"Invalid enum value">>
           [] s.k = "array" ->
                IF x.t # "arr" THEN Expected("array", x)
                ELSE (IF Len(x.v) < s.min
                      THEN <<"Array must contain at least "
                               \o ToString(s.min) \o " element(s)">>
                      ELSE <<>>)
                     \o Flatten([i \in 1..Len(x.v) |-> Issues(s.of, x.v[i])])
           [] s.k = "object" ->
                IF x.t # "obj" THEN Expected("object", x)
                ELSE Flatten([i \in 1..Len(s.shape) |->
                                Issues(s.shape[i][2], Get(x, s.shape[i][1]))])
           [] s.k = "record" ->
                IF x.t # "obj" THEN Expected("object", x)
                ELSE IF \A k \in DOMAIN x.v : x.v[k].t = "str" THEN <<>>
                     ELSE <<"Expected string">>
           [] s.k = "custom" ->
                IF TypeOf(x) = "object" /\ x # Null THEN <<>>
                ELSE <<"conferenceData must be an object">>

ShapeKeys(s) == {s.shape[i][1] : i \in 1..Len(s.shape)}
ShapeSchema(s, key) == s.shape[CHOOSE i \in 1..Len(s.shape) : s.shape[i][1] = key][2]

RECURSIVE Output(_, _)
Output(s, x) ==
    IF x = Undefined
    THEN IF "def" \in DOMAIN s THEN s.def ELSE Undefined
    ELSE CASE s.k = "object" ->
                Obj([key \in {j \in ShapeKeys(s) :
                                Output(ShapeSchema(s, j), Get(x, j)) # Undefined} |->
                       Output(ShapeSchema(s, key), Get(x, key))])
           [] s.k = "array" -> Arr([i \in 1..Len(x.v) |-> Output(s.of, x.v[i])])
           [] OTHER -> x

RECURSIVE Join(_, _)
Join(ms, sep) ==
    IF ms = <<>> THEN ""
    ELSE IF Len(ms) = 1 THEN ms[1]
    ELSE ms[1] \o sep \o Join(Tail(ms), sep)

(***************************************************************************)
(* State.                                                                  *)
(***************************************************************************)
VARIABLES
    \* the process (part_001 run, part_000 startServer)
    pc,            \* where the start-up is: "run", "authorize", "load",
                   \* "authenticate", "save", "authorized", "start",
                   \* "serving", "exited"
    argv,          \* process.argv[2]
    command,       \* what parseCommand returned
    exitCode,      \* process.exitCode
    stdout,        \* lines written to process.stdout
    stderr,        \* lines written to process.stderr
    \* the environment of authorize (googleClient.ts)
    credentialsEnv,   \* process.env.GOOGLE_OAUTH_CREDENTIALS
    keyfile,          \* the OAuth client credentials file
    tokenFile,        \* the token cache file
    tokenWritable,    \* whether the token cache file can be written
    interactive,      \* the interactive flow: "notrun", "ok", "failed"
    tokenWrites,      \* times saveCredentials wrote the token cache file
    authResult,       \* the client authorize resolved with
    \* GoogleCalendarTodoMcpServer (part_000)
    authClient,       \* this.authClient
    calendar,         \* this.calendar
    tasks,            \* this.tasks
    registered,       \* names registered with this.server.registerTool
    connected,        \* this.server.connect(transport) has resolved
    \* the clock and the invocations in flight
    now,
    inv

procVars == <<pc, argv, command, exitCode, stdout, stderr>>
envVars == <<credentialsEnv, keyfile, tokenFile, tokenWritable>>
authVars == <<interactive, tokenWrites, authResult>>
serverVars == <<authClient, calendar, tasks, registered, connected>>
vars == <<procVars, envVars, authVars, serverVars, now, inv>>

Slots == 1..MaxInFlight

\* An invocation slot nothing runs in.
IdleInv ==
    [st |-> "idle", op |-> "", raw |-> Undefined, input |-> Undefined,
     entered |-> FALSE, at |-> 0, calls |-> <<>>, responses |-> <<>>,
     results |-> <<>>, raised |-> [cls |-> "nothing"],
     outcome |-> [kind |-> "none"]]

\* What may be on the command line, in the environment and on disk.
ArgvValues ==
    {Undefined, Str("start"), Str("auth"), Str("version"), Str("-v"),
     Str("help"), Str("--help"), Str("serve")}
EnvValues == {Undefined, Str(""), Str("/oauth.json")}
KeyfileStates == {"missing", "malformed", "nokeys", "installed", "web"}
TokenFileStates == {"missing", "unreadable", "malformed", "incomplete", "valid"}

Init ==
    /\ pc = "run"
    /\ argv \in ArgvValues
    /\ command = ""
    /\ exitCode = 0
    /\ stdout = <<>>
    /\ stderr = <<>>
    /\ credentialsEnv \in EnvValues
    /\ keyfile \in KeyfileStates
    /\ tokenFile \in TokenFileStates
    /\ tokenWritable \in BOOLEAN
    /\ interactive = "notrun"
    /\ tokenWrites = 0
    /\ authResult = Undefined
    /\ authClient = Undefined
    /\ calendar = Undefined
    /\ tasks = Undefined
    /\ registered = {}
    /\ connected = FALSE
    /\ now = 0
    /\ inv = [i \in Slots |-> IdleInv]

(***************************************************************************)
(* Start-up: run, authorize, initialize, start.                            *)
(***************************************************************************)
parseCommand(firstArg) ==
    IF ~Truthy(firstArg) THEN "start"
    ELSE CASE firstArg.v = "start" -> "start"
           [] firstArg.v = "auth" -> "auth"
           [] firstArg.v \in {"version", "--version", "-v"} -> "version"
           [] firstArg.v \in {"help", "--help", "-h"} -> "help"
           [] OTHER -> "start"

\* run().catch: the error is written to stderr and the exit code set to 1.
Fatal(message) ==
    /\ stderr' = Append(stderr, "Error: " \o message)
    /\ exitCode' = 1
    /\ pc' = "exited"

\* run, up to its first await.
Run ==
    /\ pc = "run"
    /\ command' = parseCommand(argv)
    /\ CASE command' = "version" ->
              /\ stdout' = Append(stdout, "version")
              /\ pc' = "exited"
         [] command' = "help" ->
              /\ stdout' = Append(stdout, "help")
              /\ pc' = "exited"
         [] OTHER ->
              /\ stdout' = stdout
              /\ pc' = "authorize"
    /\ UNCHANGED <<argv, exitCode, stderr, envVars, authVars, serverVars, now, inv>>

\* authorize, up to the await of loadSavedCredentialsIfExist.
Authorize ==
    /\ pc = "authorize"
    /\ IF ~Truthy(credentialsEnv)
       THEN Fatal("Set GOOGLE_OAUTH_CREDENTIALS to the path of your OAuth client credentials JSON file.")
       ELSE /\ pc' = "load"
            /\ UNCHANGED <<exitCode, stderr>>
    /\ UNCHANGED <<argv, command, stdout, envVars, authVars, serverVars, now, inv>>

\* A faulty loader, which lets the error of an unusable file escape.
loadSavedCredentialsStrict(file) ==
    CASE file = "valid" -> [ok |-> TRUE, client |-> Str("cached")]
      [] file = "incomplete" -> [ok |-> TRUE, client |-> Null]
      [] file = "missing" -> [ok |-> TRUE, client |-> Null]
      [] OTHER -> [ok |-> FALSE, client |-> Null]

\* loadSavedCredentialsIfExist and the test of its result in authorize:
\* a client when the file reads, parses and holds client_id and
\* client_secret; null on anything else, errors included.
loadSavedCredentialsIfExist(file) ==
    IF file = "valid" THEN [ok |-> TRUE, client |-> Str("cached")]
    ELSE [ok |-> TRUE, client |-> Null]

\* A faulty authorize, which starts the interactive flow whatever the token
\* cache holds.
LoadSavedCredentialsIgnored ==
    /\ pc = "load"
    /\ pc' = "authenticate"
    /\ UNCHANGED <<argv, command, exitCode, stdout, stderr, envVars, authVars,
                   serverVars, now, inv>>

\* authorize: await loadSavedCredentialsIfExist(), return the cached client
\* if there is one.
LoadSavedCredentials ==
    /\ pc = "load"
    /\ LET loaded == loadSavedCredentialsIfExist(tokenFile)
       IN  IF ~loaded.ok
           THEN /\ Fatal("cannot read the token cache")
                /\ UNCHANGED authResult
           ELSE IF Truthy(loaded.client)
           THEN /\ authResult' = loaded.client
                /\ pc' = "authorized"
                /\ UNCHANGED <<exitCode, stderr>>
           ELSE /\ pc' = "authenticate"
                /\ UNCHANGED <<exitCode, stderr, authResult>>
    /\ UNCHANGED <<argv, command, stdout, envVars, interactive, tokenWrites,
                   serverVars, now, inv>>

\* authenticate({scopes, keyfilePath}) of @google-cloud/local-auth: it reads
\* the key file, so it can succeed only with one that holds client keys;
\* the user or the network can make it fail in any case.
Authenticate(ok) ==
    /\ pc = "authenticate"
    /\ ok => keyfile \in {"installed", "web"}
    /\ IF ok
       THEN /\ interactive' = "ok"
            /\ pc' = "save"
            /\ UNCHANGED <<exitCode, stderr>>
       ELSE /\ interactive' = "failed"
            /\ Fatal("authorization failed")
    /\ UNCHANGED <<argv, command, stdout, envVars, tokenWrites, authResult,
                   serverVars, now, inv>>

\* saveCredentials(client), then authorize returns the client.
saveCredentialsOutcome(env, kf, writable) ==
    IF ~Truthy(env) THEN "GOOGLE_OAUTH_CREDENTIALS environment variable is required"
    ELSE IF kf = "missing" THEN "ENOENT: no such file or directory"
    ELSE IF kf = "malformed" THEN "Unexpected token in JSON"
    ELSE IF kf = "nokeys"
    THEN "Invalid Google OAuth credentials file. Expected installed or web client."
    ELSE IF ~writable THEN "EACCES: permission denied"
    ELSE "written"

SaveCredentials ==
    /\ pc = "save"
    /\ LET outcome == saveCredentialsOutcome(credentialsEnv, keyfile, tokenWritable)
       IN  IF outcome = "written"
           THEN /\ tokenFile' = "valid"
                /\ tokenWrites' = tokenWrites + 1
                /\ authResult' = Str("fresh")
                /\ pc' = "authorized"
                /\ UNCHANGED <<exitCode, stderr>>
           ELSE /\ Fatal(outcome)
                /\ UNCHANGED <<tokenFile, tokenWrites, authResult>>
    /\ UNCHANGED <<argv, command, stdout, credentialsEnv, keyfile, tokenWritable,
                   interactive, serverVars, now, inv>>

\* The "auth" command after authorize has resolved.
AuthCommandDone ==
    /\ pc = "authorized"
    /\ command = "auth"
    /\ stdout' = Append(stdout, "OAuth tokens saved")
    /\ pc' = "exited"
    /\ UNCHANGED <<argv, command, exitCode, stderr, envVars, authVars,
                   serverVars, now, inv>>

\* A faulty initialize, which registers the tools without the client.
InitializeEarly ==
    /\ pc \in {"authorize", "authorized"}
    /\ command = "start"
    /\ authClient' = authResult
    /\ calendar' = Str("calendar_v3")
    /\ tasks' = Str("tasks_v1")
    /\ registered' = CalendarTools \cup TaskTools
    /\ pc' = "start"
    /\ UNCHANGED <<argv, command, exitCode, stdout, stderr, envVars, authVars,
                   connected, now, inv>>

\* A faulty initialize, which registers the tools and leaves the tasks
\* client unassigned.
InitializeWithoutTasks ==
    /\ pc = "authorized"
    /\ command = "start"
    /\ authClient' = authResult
    /\ calendar' = Str("calendar_v3")
    /\ registered' = CalendarTools \cup TaskTools
    /\ pc' = "start"
    /\ UNCHANGED <<argv, command, exitCode, stdout, stderr, envVars, authVars,
                   tasks, connected, now, inv>>

\* initialize after the await of authorize: both clients, then every tool.
Initialize ==
    /\ pc = "authorized"
    /\ command = "start"
    /\ authClient' = authResult
    /\ calendar' = Str("calendar_v3")
    /\ tasks' = Str("tasks_v1")
    /\ registered' = CalendarTools \cup TaskTools
    /\ pc' = "start"
    /\ UNCHANGED <<argv, command, exitCode, stdout, stderr, envVars, authVars,
                   connected, now, inv>>

\* start: the stdio transport is connected.
Start ==
    /\ pc = "start"
    /\ connected' = TRUE
    /\ pc' = "serving"
    /\ UNCHANGED <<argv, command, exitCode, stdout, stderr, envVars, authVars,
                   authClient, calendar, tasks, registered, now, inv>>

Startup ==
    \/ Run
    \/ Authorize
    \/ LoadSavedCredentials
    \/ \E ok \in BOOLEAN : Authenticate(ok)
    \/ SaveCredentials
    \/ AuthCommandDone
    \/ Initialize
    \/ Start

(***************************************************************************)
(* Errors and the catch block of the registry's callback.                  *)
(***************************************************************************)
\* Values that can be thrown: cls is the class the value is an instance of
\* ("none" for a value that is no Error), js the value itself.
McpError(code, message) ==
    [cls |-> "McpError", js |-> Obj([code |-> Str(code), message |-> Str(message)])]
ZodError(issues) ==
    [cls |-> "ZodError",
     js |-> Obj([issues |-> Arr([i \in 1..Len(issues) |-> Obj([message |-> Str(issues[i])])]),
                 message |-> Str("zod")])]
JsError(message) == [cls |-> "Error", js |-> Obj([message |-> Str(message)])]

\* String(x)
JsString(x) ==
    CASE x.t = "str" -> x.v
      [] x.t = "num" -> ToString(x.v)
      [] x.t = "bool" -> IF x.v THEN "true" ELSE "false"
      [] x.t = "null" -> "null"
      [] x.t = "undefined" -> "undefined"
      [] OTHER -> "[object Object]"

\* A faulty catch block, which drops the message and the class of the error.
catchBlockSwallow(error) ==
    IF error.cls = "ZodError"
    THEN McpError("InvalidParams", "invalid")
    ELSE McpError("InternalError", "Unexpected error executing tool")

catchBlock(error) ==
    IF error.cls = "McpError" THEN error
    ELSE IF error.cls = "ZodError"
    THEN McpError("InvalidParams",
                  Join([i \in 1..Len(error.js.v.issues.v) |->
                          error.js.v.issues.v[i].v.message.v], "; "))
    ELSE IF Truthy(error.js) /\ error.js.t = "obj" /\ "message" \in DOMAIN error.js.v
    THEN McpError("InternalError", JsString(error.js.v.message))
    ELSE McpError("InternalError", "Unexpected error executing tool")

(***************************************************************************)
(* The handlers: the backend request each builds, and its result.          *)
(***************************************************************************)
\* new Date().toISOString() at clock reading t
\* A faulty timestamp, which leaves the reading of the clock out.
toISOStringFixed(t) == Str("1970-01-01T00:00:00.000Z")

\* new Date().toISOString() at clock reading t (milliseconds).
toISOString(t) == Str("1970-01-01T00:00:00.00" \o ToString(t) \o "Z")

\* {p: input.f, ...}: the parameter p carries the input's field f
Pick(input, fields) == Obj([p \in DOMAIN fields |-> Get(input, fields[p])])

Request(api, params) == [api |-> api, params |-> params]

listEventsRequest(input) ==
    Request("events.list",
            Pick(input, [calendarId |-> "calendarId", timeMin |-> "timeMin",
                         timeMax |-> "timeMax", maxResults |-> "maxResults",
                         q |-> "query", singleEvents |-> "singleEvents",
                         orderBy |-> "orderBy", showDeleted |-> "showDeleted",
                         timeZone |-> "timeZone", pageToken |-> "pageToken",
                         syncToken |-> "syncToken",
                         privateExtendedProperty |-> "privateExtendedProperty",
                         sharedExtendedProperty |-> "sharedExtendedProperty"]))

\* The request of the k-th turn of the loop of search-events.
searchEventsRequest(input, k) ==
    Request("events.list",
            Put(Pick(input, [q |-> "query", timeMin |-> "timeMin",
                             timeMax |-> "timeMax",
                             maxResults |-> "maxResultsPerCalendar",
                             timeZone |-> "timeZone", orderBy |-> "orderBy",
                             showDeleted |-> "showDeleted",
                             singleEvents |-> "singleEvents",
                             privateExtendedProperty |-> "privateExtendedProperty",
                             sharedExtendedProperty |-> "sharedExtendedProperty"]),
                "calendarId", Get(input, "calendarIds").v[k]))

\* Array.isArray(input.attachments) && input.attachments.length > 0
\* A faulty hasAttachments, which holds for every list, the empty one too.
hasAttachmentsAnyList(input) == Get(input, "attachments").t = "arr"

\* hasAttachments = Array.isArray(input.attachments) && length > 0
hasAttachments(input) ==
    Get(input, "attachments").t = "arr" /\ Len(Get(input, "attachments").v) > 0

\* Faulty options, which ask for conference processing only when the
\* conference data has a member.
EventOptionsKeyed(input) ==
    [sendUpdates |-> Get(input, "sendUpdates"),
     supportsAttachments |-> IF hasAttachments(input) THEN Bool(TRUE) ELSE Undefined,
     conferenceDataVersion |->
         IF Truthy(Get(input, "conferenceData"))
              /\ Get(input, "conferenceData").t = "obj"
              /\ DOMAIN Get(input, "conferenceData").v # {}
         THEN Num(1) ELSE Undefined]

\* supportsAttachments and conferenceDataVersion of insert and patch
EventOptions(input) ==
    [sendUpdates |-> Get(input, "sendUpdates"),
     supportsAttachments |-> IF hasAttachments(input) THEN Bool(TRUE) ELSE Undefined,
     conferenceDataVersion |->
         IF Truthy(Get(input, "conferenceData")) THEN Num(1) ELSE Undefined]

PutIfDefined(o, k, val) == IF val # Undefined THEN Put(o, k, val) ELSE o

createEventBody(input) ==
    LET b0 == Obj([summary |-> Get(input, "summary"),
                   start |-> toGoogleDate(Get(input, "start"), Get(input, "timeZone")),
                   end |-> toGoogleDate(Get(input, "end"), Get(input, "timeZone"))])
        b1 == PutIfDefined(b0, "description", Get(input, "description"))
        b2 == PutIfDefined(b1, "location", Get(input, "location"))
        b3 == IF Truthy(Get(input, "eventId"))
              THEN Put(b2, "id", Get(input, "eventId"))
              ELSE b2
    IN  applyCommonEventFields(b3, input)

createEventRequest(input) ==
    Request("events.insert",
            Obj([calendarId |-> Get(input, "calendarId"),
                 requestBody |-> createEventBody(input)] @@ EventOptions(input)))

\* A faulty body builder, which sends summary, start and end always.
updateEventBodyAll(input) ==
    applyCommonEventFields(
        Obj([summary |-> Coalesce(Get(input, "summary"), Null),
             start |-> Null,
             end |-> Null]),
        input)

\* The request body update-event and update-event-instance build.
updateEventBody(input) ==
    LET b0 == EmptyObj
        b1 == PutIfDefined(b0, "summary", Get(input, "summary"))
        b2 == IF Get(input, "start") # Undefined
              THEN Put(b1, "start",
                       toGoogleDate(Get(input, "start"), Get(input, "timeZone")))
              ELSE b1
        b3 == IF Get(input, "end") # Undefined
              THEN Put(b2, "end",
                       toGoogleDate(Get(input, "end"), Get(input, "timeZone")))
              ELSE b2
    IN  applyCommonEventFields(b3, input)

updateEventRequest(input) ==
    Request("events.patch",
            Obj([calendarId |-> Get(input, "calendarId"),
                 eventId |-> Get(input, "eventId"),
                 requestBody |-> updateEventBody(input)] @@ EventOptions(input)))

updateEventInstanceRequest(input) ==
    Request("events.patch",
            Obj([calendarId |-> Get(input, "calendarId"),
                 eventId |-> Get(input, "instanceId"),
                 requestBody |-> updateEventBody(input)] @@ EventOptions(input)))

listEventInstancesRequest(input) ==
    Request("events.instances",
            Pick(input, [calendarId |-> "calendarId", eventId |-> "recurringEventId",
                         timeMin |-> "timeMin", timeMax |-> "timeMax",
                         maxResults |-> "maxResults", pageToken |-> "pageToken",
                         showDeleted |-> "showDeleted", timeZone |-> "timeZone"]))

deleteEventRequest(input) ==
    Request("events.delete",
            Pick(input, [calendarId |-> "calendarId", eventId |-> "eventId",
                         sendUpdates |-> "sendUpdates"]))

\* A faulty delete-event-instance, which reads eventId.
deleteEventInstanceRequestById(input) ==
    Request("events.delete",
            Pick(input, [calendarId |-> "calendarId", eventId |-> "eventId",
                         sendUpdates |-> "sendUpdates"]))

deleteEventInstanceRequest(input) ==
    Request("events.delete",
            Pick(input, [calendarId |-> "calendarId", eventId |-> "instanceId",
                         sendUpdates |-> "sendUpdates"]))

listTasksRequest(input) ==
    Request("tasks.list",
            Pick(input, [tasklist |-> "tasklistId", showCompleted |-> "showCompleted",
                         showDeleted |-> "showDeleted", maxResults |-> "maxResults",
                         dueMin |-> "dueMin", dueMax |-> "dueMax"]))

createTaskRequest(input) ==
    Request("tasks.insert",
            Obj([tasklist |-> Get(input, "tasklistId"),
                 requestBody |-> Pick(input, [title |-> "title", notes |-> "notes",
                                              due |-> "due"])]))

\* A faulty body builder, which takes completed from due.
updateTaskBodyDue(input, t) ==
    LET b1 == PutIfDefined(EmptyObj, "title", Get(input, "title"))
        b2 == PutIfDefined(b1, "notes", Get(input, "notes"))
        b3 == PutIfDefined(b2, "due", Get(input, "due"))
        b4 == PutIfDefined(b3, "status", Get(input, "status"))
    IN  IF Get(input, "status") = Str("completed")
        THEN Put(b4, "completed", Coalesce(Get(input, "due"), toISOString(t)))
        ELSE b4

\* The request body of update-task, built at clock reading t.
updateTaskBody(input, t) ==
    LET b1 == PutIfDefined(EmptyObj, "title", Get(input, "title"))
        b2 == PutIfDefined(b1, "notes", Get(input, "notes"))
        b3 == PutIfDefined(b2, "due", Get(input, "due"))
    IN  IF Get(input, "status") # Undefined
        THEN LET b4 == Put(b3, "status", Get(input, "status"))
             IN  IF Get(input, "status") = Str("completed")
                 THEN Put(b4, "completed", toISOString(t))
                 ELSE b4
        ELSE b3

updateTaskRequest(input, t) ==
    Request("tasks.patch",
            Obj([tasklist |-> Get(input, "tasklistId"),
                 task |-> Get(input, "taskId"),
                 requestBody |-> updateTaskBody(input, t)]))

completeTaskRequest(input, t) ==
    LET completedAt == toISOString(t)
    IN  Request("tasks.patch",
                Obj([tasklist |-> Get(input, "tasklistId"),
                     task |-> Get(input, "taskId"),
                     requestBody |-> Obj([status |-> Str("completed"),
                                          completed |-> completedAt])]))

deleteTaskRequest(input) ==
    Request("tasks.delete",
            Pick(input, [tasklist |-> "tasklistId", task |-> "taskId"]))

\* The first backend request of a handler, issued at clock reading t.
FirstRequest(name, input, t) ==
    CASE name = "list-calendars" -> Request("calendarList.list", Undefined)
      [] name = "list-events" -> listEventsRequest(input)
      [] name = "search-events" -> searchEventsRequest(input, 1)
      [] name = "create-event" -> createEventRequest(input)
      [] name = "update-event" -> updateEventRequest(input)
      [] name = "list-event-instances" -> listEventInstancesRequest(input)
      [] name = "update-event-instance" -> updateEventInstanceRequest(input)
      [] name = "delete-event" -> deleteEventRequest(input)
      [] name = "delete-event-instance" -> deleteEventInstanceRequest(input)
      [] name = "list-tasklists" ->
           Request("tasklists.list", Obj([maxResults |-> Num(100)]))
      [] name = "list-tasks" -> listTasksRequest(input)
      [] name = "create-task" -> createTaskRequest(input)
      [] name = "update-task" -> updateTaskRequest(input, t)
      [] name = "complete-task" -> completeTaskRequest(input, t)
      [] name = "delete-task" -> deleteTaskRequest(input)

\* (response.data.items ?? []).map(f)
MapItems(data, f(_)) ==
    LET items == Coalesce(Get(data, "items"), Arr(<<>>))
    IN  Arr([i \in 1..Len(items.v) |-> f(items.v[i])])

mapCalendarListEntry(item) ==
    Obj([id |-> Get(item, "id"),
         summary |-> Get(item, "summary"),
         description |-> Coalesce(Get(item, "description"), Null),
         timeZone |-> Coalesce(Get(item, "timeZone"), Null),
         primary |-> Bool(Truthy(Get(item, "primary"))),
         accessRole |-> Coalesce(Get(item, "accessRole"), Null)])

mapTaskList(item) ==
    Obj([id |-> Get(item, "id"), title |-> Get(item, "title"),
         updated |-> Get(item, "updated")])

mapTask(task) ==
    Obj([id |-> Get(task, "id"),
         title |-> Get(task, "title"),
         notes |-> Coalesce(Get(task, "notes"), Null),
         status |-> Get(task, "status"),
         due |-> Coalesce(Get(task, "due"), Null),
         completed |-> Coalesce(Get(task, "completed"), Null),
         updated |-> Get(task, "updated")])

\* What the loop of search-events pushes for one calendar.
searchEventsEntry(calendarId, data) ==
    Obj([calendarId |-> calendarId,
         events |-> MapItems(data, mapEvent),
         nextPageToken |-> Coalesce(Get(data, "nextPageToken"), Null)])

RECURSIVE SumEvents(_)
SumEvents(results) ==
    IF results = <<>> THEN 0
    ELSE Len(Get(Head(results), "events").v) + SumEvents(Tail(results))

\* What a handler returns once its (last) backend call has returned data.
HandlerResult(name, input, results, data) ==
    CASE name = "list-calendars" ->
           Obj([calendars |-> MapItems(data, mapCalendarListEntry)])
      [] name = "list-events" ->
           Obj([events |-> MapItems(data, mapEvent),
                nextPageToken |-> Coalesce(Get(data, "nextPageToken"), Null),
                nextSyncToken |-> Coalesce(Get(data, "nextSyncToken"), Null)])
      [] name = "search-events" ->
           Obj([query |-> Get(input, "query"),
                totalEvents |-> Num(SumEvents(results)),
                calendars |-> Arr(results)])
      [] name \in {"create-event", "update-event", "update-event-instance"} ->
           Obj([event |-> data])
      [] name = "list-event-instances" ->
           Obj([instances |-> MapItems(data, mapEvent),
                nextPageToken |-> Coalesce(Get(data, "nextPageToken"), Null)])
      [] name \in {"delete-event", "delete-event-instance", "delete-task"} ->
           Obj([success |-> Bool(TRUE)])
      [] name = "list-tasklists" ->
           Obj([tasklists |-> MapItems(data, mapTaskList),
                nextPageToken |-> Coalesce(Get(data, "nextPageToken"), Null)])
      [] name = "list-tasks" ->
           Obj([tasks |-> MapItems(data, mapTask),
                nextPageToken |-> Coalesce(Get(data, "nextPageToken"), Null)])
      [] name \in {"create-task", "update-task", "complete-task"} ->
           Obj([task |-> data])

(***************************************************************************)
(* The registry's callback (registerTool) around a handler.                *)
(***************************************************************************)
Thrown(r, error) ==
    [r EXCEPT !.st = "done", !.raised = error,
              !.outcome = [kind |-> "error", error |-> catchBlock(error)]]

Returned(r, result) ==
    [r EXCEPT !.st = "done",
              !.outcome = [kind |-> "result", content |-> toJsonContent(result)]]

\* ensureCalendar / ensureTasks for the tool
ClientOf(name) == IF name \in CalendarTools THEN calendar ELSE tasks
NotInitialized(name) ==
    McpError("InternalError",
             IF name \in CalendarTools
             THEN "Google Calendar client is not initialized"
             ELSE "Google Tasks client is not initialized")

\* The callback from its call to its first await (or its end): parse, then
\* the handler up to its first backend call.
ToolCall(name, args, t) ==
    LET a == Coalesce(args, EmptyObj)
        issues == Issues(SchemaOf(name), a)
        input == Output(SchemaOf(name), a)
        r == [IdleInv EXCEPT !.op = name, !.raw = args, !.at = t]
    IN  IF issues # <<>> THEN Thrown(r, ZodError(issues))
        ELSE IF ~Truthy(ClientOf(name))
        THEN Thrown([r EXCEPT !.input = input, !.entered = TRUE], NotInitialized(name))
        ELSE [r EXCEPT !.st = "awaiting", !.input = input, !.entered = TRUE,
                       !.calls = <<FirstRequest(name, input, t)>>]

\* A faulty search-events, which issues its remaining calls at once.
HandlerResumeParallel(r, data) ==
    LET ids == Get(r.input, "calendarIds").v
    IN  IF r.op = "search-events" /\ Len(r.calls) < Len(ids)
        THEN [r EXCEPT !.responses = Append(@, data),
                       !.calls = @ \o [j \in 1..(Len(ids) - Len(r.calls)) |->
                                         searchEventsRequest(r.input, Len(r.calls) + j)]]
        ELSE Returned([r EXCEPT !.responses = Append(@, data)],
                      HandlerResult(r.op, r.input, r.results, data))

\* A faulty search-events, which keeps its results in one list that every
\* invocation appends to.
HandlerResumeShared(r, data) ==
    IF r.op = "search-events"
    THEN LET k == Len(r.calls)
             ids == Get(r.input, "calendarIds").v
             shared == IF r = inv[1] THEN r.results ELSE inv[1].results \o r.results
             results == Append(shared, searchEventsEntry(ids[k], data))
             r1 == [r EXCEPT !.responses = Append(@, data), !.results = results]
         IN  IF k < Len(ids)
             THEN [r1 EXCEPT !.calls = Append(@, searchEventsRequest(r.input, k + 1))]
             ELSE Returned(r1, HandlerResult(r.op, r.input, results, data))
    ELSE Returned([r EXCEPT !.responses = Append(@, data)],
                  HandlerResult(r.op, r.input, r.results, data))

\* The handler from the return of a backend call to its next await or end.
HandlerResume(r, data) ==
    IF r.op = "search-events"
    THEN LET k == Len(r.calls)
             ids == Get(r.input, "calendarIds").v
             results == Append(r.results, searchEventsEntry(ids[k], data))
             r1 == [r EXCEPT !.responses = Append(@, data), !.results = results]
         IN  IF k < Len(ids)
             THEN [r1 EXCEPT !.calls = Append(@, searchEventsRequest(r.input, k + 1))]
             ELSE Returned(r1, HandlerResult(r.op, r.input, results, data))
    ELSE Returned([r EXCEPT !.responses = Append(@, data)],
                  HandlerResult(r.op, r.input, r.results, data))

\* A faulty handler, which repeats a call that threw.
HandlerThrowRetry(r, error) ==
    IF Len(r.calls) < 2
    THEN [r EXCEPT !.calls = Append(@, r.calls[Len(r.calls)])]
    ELSE Thrown(r, error)

\* The handler when a backend call throws: the catch block ends the call.
HandlerThrow(r, error) == Thrown(r, error)

(***************************************************************************)
(* The backend: what a call can return or throw.                           *)
(***************************************************************************)
event1 == Obj([id |-> Str("e1")])
event2 ==
    Obj([id |-> Str("e2"), summary |-> Str("Standup"), description |-> Null,
         start |-> Obj([dateTime |-> Str("2024-01-10T09:00:00-08:00")]),
         end |-> Obj([dateTime |-> Str("2024-01-10T09:30:00-08:00")])])
task1 == Obj([id |-> Str("t1"), title |-> Str("T"), status |-> Str("needsAction")])

Responses(api) ==
    CASE api = "calendarList.list" ->
           {EmptyObj,
            Obj([items |-> Arr(<<Obj([id |-> Str("primary"), summary |-> Str("Me"),
                                      primary |-> Bool(TRUE)])>>)])}
      [] api \in {"events.list", "events.instances"} ->
           {EmptyObj,
            Obj([items |-> Arr(<<event1, event2>>), nextPageToken |-> Str("p2")])}
      [] api \in {"events.insert", "events.patch"} -> {event1, event2}
      [] api = "tasklists.list" ->
           {EmptyObj, Obj([items |-> Arr(<<Obj([id |-> Str("l1")])>>)])}
      [] api = "tasks.list" -> {EmptyObj, Obj([items |-> Arr(<<task1>>)])}
      [] api \in {"tasks.insert", "tasks.patch"} -> {task1}
      [] api = "events.delete" -> {Str(""), event1}
      [] api = "tasks.delete" -> {Str(""), task1}

Apis ==
    {"calendarList.list", "events.list", "events.instances", "events.insert",
     "events.patch", "events.delete", "tasklists.list", "tasks.list",
     "tasks.insert", "tasks.patch", "tasks.delete"}
AllResponses == UNION {Responses(a) : a \in Apis}

\* What the API client throws: an Error with the backend's message, or (a
\* rejected promise can carry anything) a value that is no Error.
BackendErrors ==
    {JsError("Not Found"),
     JsError("Rate Limit Exceeded"),
     [cls |-> "none", js |-> Str("boom")],
     [cls |-> "Object", js |-> Obj([code |-> Num(404)])]}

\* Every shape of value the catch block tells apart, as a backend double
\* can throw them: the errors above, null, an object whose message is no
\* string, and errors of the two classes the callback itself knows.
Throwables ==
    BackendErrors \cup
    {[cls |-> "none", js |-> Null],
     [cls |-> "Object", js |-> Obj([message |-> Num(5)])],
     McpError("InternalError", "Google Calendar client is not initialized"),
     McpError("InvalidParams", "upstream"),
     ZodError(<<"bad", "worse">>)}

(***************************************************************************)
(* Invocations.                                                            *)
(***************************************************************************)
idVars == <<procVars, envVars, authVars, serverVars>>

\* A request for a registered tool arrives over the connected transport.
Invoke(i, name, args) ==
    /\ connected
    /\ name \in registered
    /\ inv[i].st = "idle"
    /\ inv' = [inv EXCEPT ![i] = ToolCall(name, args, now)]
    /\ UNCHANGED <<idVars, now>>

\* The backend call an invocation awaits returns.
BackendReturn(i, data) ==
    /\ inv[i].st = "awaiting"
    /\ data \in Responses(inv[i].calls[Len(inv[i].calls)].api)
    /\ inv' = [inv EXCEPT ![i] = HandlerResume(inv[i], data)]
    /\ UNCHANGED <<idVars, now>>

\* The backend call an invocation awaits throws.
BackendThrow(i, error) ==
    /\ inv[i].st = "awaiting"
    /\ inv' = [inv EXCEPT ![i] = HandlerThrow([inv[i] EXCEPT !.raised = error], error)]
    /\ UNCHANGED <<idVars, now>>

\* The transport has sent the result or the error; the slot is free again.
Respond(i) ==
    /\ inv[i].st = "done"
    /\ inv' = [inv EXCEPT ![i] = IdleInv]
    /\ UNCHANGED <<idVars, now>>

\* Time passes.
Tick ==
    /\ now < MaxClock
    /\ now' = now + 1
    /\ UNCHANGED <<idVars, inv>>

(***************************************************************************)
(* The raw arguments a caller sends.                                       *)
(***************************************************************************)
dateTime1 == Str("2024-01-10T09:00:00-08:00")
dateTime2 == Str("2024-01-10T09:30:00-08:00")
dateOnly1 == Str("2024-01-10")
dateOnly2 == Str("2024-01-11")

\* A few argument values for each tool, some of which its schema rejects.
RawArgs(name) ==
    CASE name = "list-calendars" ->
           {Undefined, Obj([junk |-> Num(1)]), Str("x")}
      [] name = "list-events" ->
           {EmptyObj,
            Obj([maxResults |-> Num(5000)]),
            Obj([maxResults |-> Frac(1), orderBy |-> Str("created")]),
            Obj([calendarId |-> Str("work"), maxResults |-> Num(2500),
                 query |-> Str("q"), privateExtendedProperty |-> Arr(<<Str("k=v")>>)]),
            Obj([sharedExtendedProperty |-> Arr(<<Str("k=v=w")>>)])}
      [] name = "search-events" ->
           {Obj([query |-> Str("q")]),
            Obj([calendarIds |-> Arr(<<Str("a"), Str("b")>>), query |-> Str("q")]),
            Obj([calendarIds |-> Arr(<<Str("b"), Str("a")>>), query |-> Str("q"),
                 maxResultsPerCalendar |-> Num(1)]),
            Obj([calendarIds |-> Arr(<<>>), query |-> Str("q")]),
            Obj([calendarIds |-> Arr(<<Str("a")>>), query |-> Str("")]),
            Obj([calendarIds |-> Arr(<<Str("a")>>)])}
      [] name = "create-event" ->
           {Obj([summary |-> Str("Standup"), start |-> dateTime1, end |-> dateTime2]),
            Obj([summary |-> Str("Trip"), start |-> dateOnly1, end |-> dateOnly2,
                 timeZone |-> Str("Asia/Tokyo"), eventId |-> Str("")]),
            Obj([summary |-> Str("Standup"), start |-> dateTime1]),
            Null}
      [] name = "update-event" ->
           {Obj([eventId |-> Str("e1")]),
            Obj([eventId |-> Str("e1"), summary |-> Str("S"), start |-> dateTime1,
                 timeZone |-> Str("")]),
            Obj([summary |-> Str("S")])}
      [] name = "list-event-instances" ->
           {Obj([recurringEventId |-> Str("r1")]),
            Obj([recurringEventId |-> Str("r1"), maxResults |-> Num(0)])}
      [] name = "update-event-instance" ->
           {Obj([instanceId |-> Str("r1_20240110")]),
            Obj([instanceId |-> Str("r1_20240110"), end |-> dateOnly2,
                 timeZone |-> Str("UTC")]),
            Obj([instanceId |-> Num(5)])}
      [] name = "delete-event" ->
           {Obj([eventId |-> Str("e1")]),
            Obj([eventId |-> Str("e1"), calendarId |-> Str("work"),
                 sendUpdates |-> Str("all")]),
            Obj([eventId |-> Str("e1"), sendUpdates |-> Str("maybe")])}
      [] name = "delete-event-instance" ->
           {Obj([instanceId |-> Str("evt_20240110")]),
            Obj([instanceId |-> Str("evt_20240110"), calendarId |-> Str("work")]),
            EmptyObj}
      [] name = "list-tasklists" -> {Undefined, Arr(<<>>)}
      [] name = "list-tasks" ->
           {EmptyObj,
            Obj([tasklistId |-> Str("l1"), showCompleted |-> Bool(TRUE)]),
            Obj([maxResults |-> Num(101)])}
      [] name = "create-task" ->
           {Obj([title |-> Str("T")]),
            Obj([title |-> Str("T"), notes |-> Str("n"), due |-> dateTime1]),
            Obj([notes |-> Str("n")])}
      [] name = "update-task" ->
           {Obj([taskId |-> Str("t1")]),
            Obj([taskId |-> Str("t1"), status |-> Str("completed")]),
            Obj([taskId |-> Str("t1"), status |-> Str("completed"),
                 due |-> dateTime1, completed |-> Str("1999-01-01T00:00:00.000Z")]),
            Obj([taskId |-> Str("t1"), status |-> Str("needsAction"),
                 title |-> Str("T")]),
            Obj([taskId |-> Str("t1"), status |-> Str("done")])}
      [] name = "complete-task" ->
           {Obj([taskId |-> Str("t1")]),
            Obj([taskId |-> Str("t1"), completed |-> Str("1999-01-01T00:00:00.000Z")]),
            Obj([tasklistId |-> Str("l1")])}
      [] name = "delete-task" ->
           {Obj([taskId |-> Str("t1")]),
            Obj([tasklistId |-> Null, taskId |-> Str("t1")])}

(***************************************************************************)
(* The system: start-up, then a client that sends one request at a time.   *)
(***************************************************************************)
Next ==
    \/ Startup
    \/ Tick
    \/ \E name \in ToolNames : \E args \in RawArgs(name) : Invoke(1, name, args)
    \/ \E data \in AllResponses : BackendReturn(1, data)
    \/ \E error \in BackendErrors : BackendThrow(1, error)
    \/ Respond(1)

Spec == Init /\ [][Next]_vars

(***************************************************************************)
(* The server once start-up has succeeded with a cached token: the state   *)
(* the specifications below, which leave start-up out, begin in.           *)
(***************************************************************************)
InitServing ==
    /\ pc = "serving"
    /\ argv = Undefined
    /\ command = "start"
    /\ exitCode = 0
    /\ stdout = <<>>
    /\ stderr = <<>>
    /\ credentialsEnv = Str("/oauth.json")
    /\ keyfile = "installed"
    /\ tokenFile = "valid"
    /\ tokenWritable = TRUE
    /\ interactive = "notrun"
    /\ tokenWrites = 0
    /\ authResult = Str("cached")
    /\ authClient = Str("cached")
    /\ calendar = Str("calendar_v3")
    /\ tasks = Str("tasks_v1")
    /\ registered = ToolNames
    /\ connected = TRUE
    /\ now = 0
    /\ inv = [i \in Slots |-> IdleInv]

(***************************************************************************)
(* The callback's catch block against a backend double that throws every   *)
(* shape of value the block tells apart.                                   *)
(***************************************************************************)
NextCatch ==
    \/ \E name \in ToolNames : \E args \in RawArgs(name) : Invoke(1, name, args)
    \/ \E data \in AllResponses : BackendReturn(1, data)
    \/ \E error \in Throwables : BackendThrow(1, error)
    \/ Respond(1)

SpecCatch == InitServing /\ [][NextCatch]_vars

(***************************************************************************)
(* The request bodies of the tools that write: the caller supplies the     *)
(* identifiers and up to MaxSupplied of the other fields, each with one of *)
(* a few values.                                                           *)
(***************************************************************************)
WriteTools == {"create-event", "update-event", "update-event-instance", "update-task"}

\* The arguments every request of the tool carries.
BaseArgs(name) ==
    CASE name = "create-event" ->
           {[summary |-> Str("Standup"), start |-> dateTime1, end |-> dateTime2],
            [summary |-> Str("Trip"), start |-> dateOnly1, end |-> dateOnly2],
            [summary |-> Str("Trip"), start |-> dateOnly1, end |-> dateTime2]}
      [] name = "update-event" -> {[eventId |-> Str("e1")]}
      [] name = "update-event-instance" -> {[instanceId |-> Str("r1_20240110")]}
      [] name = "update-task" -> {[taskId |-> Str("t1")]}

\* The other fields a caller may supply.
OtherFields(name) ==
    CASE name = "create-event" ->
           {"calendarId", "timeZone", "sendUpdates", "eventId"} \cup CommonEventFields
      [] name \in {"update-event", "update-event-instance"} ->
           {"calendarId", "summary", "start", "end", "timeZone", "sendUpdates"}
             \cup CommonEventFields
      [] name = "update-task" ->
           {"tasklistId", "title", "notes", "due", "status", "completed"}

\* The values tried for a field.
Alternatives(k) ==
    CASE k \in {"calendarId", "tasklistId"} -> <<Str("work")>>
      [] k \in {"summary", "title", "notes", "location", "colorId"} -> <<Str("S")>>
      [] k = "description" -> <<Str("d"), Str("")>>
      [] k = "eventId" -> <<Str("e9"), Str("")>>
      [] k \in {"start", "end"} ->
           <<dateTime1, dateOnly1, Str("2024-1-10"), Str("2024-01-1O")>>
      [] k = "due" -> <<dateTime1>>
      [] k = "timeZone" -> <<Str("Asia/Tokyo"), Str("")>>
      [] k = "sendUpdates" -> <<Str("all")>>
      [] k = "status" -> <<Str("completed"), Str("needsAction")>>
      [] k = "completed" -> <<Str("1999-01-01T00:00:00.000Z")>>
      [] k = "recurrence" -> <<Arr(<<Str("RRULE:FREQ=DAILY")>>), Arr(<<>>)>>
      [] k = "transparency" -> <<Str("opaque")>>
      [] k = "visibility" -> <<Str("private")>>
      [] k = "attendees" ->
           <<Arr(<<Obj([email |-> Str("a@x.org")])>>), Arr(<<>>)>>
      [] k = "reminders" ->
           <<EmptyObj,
             Obj([useDefault |-> Bool(FALSE)]),
             Obj([overrides |-> Arr(<<Obj([minutes |-> Num(10)])>>)]),
             Obj([useDefault |-> Bool(TRUE),
                  overrides |-> Arr(<<Obj([method |-> Str("email"),
                                           minutes |-> Num(0)])>>)]),
             Obj([overrides |-> Arr(<<Obj([minutes |-> Num(30)]),
                                      Obj([method |-> Str("email"),
                                           minutes |-> Num(0)])>>)]),
             Obj([overrides |-> Arr(<<>>)])>>
      [] k = "conferenceData" ->
           <<EmptyObj,
             Obj([createRequest |-> Obj([requestId |-> Str("r1")])]),
             Arr(<<>>),
             Null,
             Str("meet")>>
      [] k = "extendedProperties" ->
           <<EmptyObj,
             Obj([private |-> EmptyObj]),
             Obj([private |-> Obj([k1 |-> Str("v1")])]),
             Obj([private |-> EmptyObj, shared |-> Obj([k2 |-> Str("v2")])]),
             Obj([private |-> Obj([k1 |-> Str("v1")]),
                  shared |-> Obj([k2 |-> Str("v2")])])>>
      [] k \in {"guestsCanInviteOthers", "guestsCanModify",
                "guestsCanSeeOtherGuests", "anyoneCanAddSelf"} ->
           <<Bool(TRUE), Bool(FALSE)>>
      [] k = "attachments" ->
           <<Arr(<<>>), Arr(<<Obj([fileUrl |-> Str("https://x.org/f")])>>)>>
      [] k = "source" ->
           <<Obj([title |-> Str("src"), url |-> Str("https://x.org/")])>>

\* The subsets of S with at most n elements.
RECURSIVE SubsetsUpTo(_, _)
SubsetsUpTo(S, n) ==
    IF n = 0 THEN {{}}
    ELSE LET P == SubsetsUpTo(S, n - 1)
         IN  P \cup {p \cup {x} : p \in P, x \in S}

\* The arguments with the fields of S added to base, field k with its
\* f[k]-th value.
RichArg(base, S, f) == Obj([k \in S |-> Alternatives(k)[f[k]]] @@ base)

NextBody ==
    \/ /\ inv[1].st = "idle"
       /\ \E name \in WriteTools : \E base \in BaseArgs(name) :
            \E S \in SubsetsUpTo(OtherFields(name), MaxSupplied) :
              \E f \in [S -> 1..6] :
                 /\ \A k \in S : f[k] <= Len(Alternatives(k))
                 /\ Invoke(1, name, RichArg(base, S, f))
    \/ \E data \in AllResponses : BackendReturn(1, data)
    \/ BackendThrow(1, JsError("Not Found"))
    \/ Respond(1)

SpecBody == InitServing /\ [][NextBody]_vars

(***************************************************************************)
(* Several invocations in flight: the callback of one request runs to its  *)
(* await, and the callbacks of other requests run before it resumes.       *)
(***************************************************************************)
ConcurrentTools == {"search-events", "list-events", "complete-task", "delete-event"}

ConcurrentArgs(name) ==
    CASE name = "search-events" ->
           {Obj([calendarIds |-> Arr(<<Str("a"), Str("b")>>), query |-> Str("q")]),
            Obj([calendarIds |-> Arr(<<Str("c")>>), query |-> Str("r")])}
      [] name = "list-events" -> {EmptyObj}
      [] name = "complete-task" -> {Obj([taskId |-> Str("t1")])}
      [] name = "delete-event" -> {Obj([eventId |-> Str("e1")])}

InitConcurrent ==
    /\ Init
    /\ argv \in {Undefined, Str("auth")}
    /\ credentialsEnv = Str("/oauth.json")
    /\ keyfile = "installed"
    /\ tokenFile \in {"valid", "missing"}
    /\ tokenWritable

NextConcurrent ==
    \/ Startup
    \/ \E i \in Slots :
          \/ \E name \in ConcurrentTools : \E args \in ConcurrentArgs(name) :
                Invoke(i, name, args)
          \/ \E data \in AllResponses : BackendReturn(i, data)
          \/ BackendThrow(i, JsError("Not Found"))
          \/ Respond(i)

SpecConcurrent == InitConcurrent /\ [][NextConcurrent]_vars

(***************************************************************************)
(* Two complete-task requests, the second sent once the first has ended;   *)
(* slot 1 keeps the first while the second runs in slot 2.                 *)
(***************************************************************************)
ConsecutiveArgs ==
    {Obj([taskId |-> Str("t1")]),
     Obj([taskId |-> Str("t2"), tasklistId |-> Str("l1"), notes |-> Str("n"),
          completed |-> Str("1999-01-01T00:00:00.000Z")])}

NextConsecutive ==
    \/ Tick
    \/ /\ inv[2].st = "idle"
       /\ \E args \in ConsecutiveArgs : Invoke(1, "complete-task", args)
    \/ /\ inv[1].st = "done"
       /\ \E args \in ConsecutiveArgs : Invoke(2, "complete-task", args)
    \/ \E i \in {1, 2} : \E data \in AllResponses : BackendReturn(i, data)
    \/ \E i \in {1, 2} : BackendThrow(i, JsError("Not Found"))
    \/ Respond(1)
    \/ /\ inv[1].st = "idle"
       /\ Respond(2)

SpecConsecutive == InitServing /\ [][NextConsecutive]_vars

(***************************************************************************)
(* The class used in any order: start may be called before initialize, or  *)
(* while initialize awaits authorize, as well as after it.                 *)
(***************************************************************************)
\* start, called by another caller than startServer.
StartAnytime ==
    /\ command = "start"
    /\ pc \in {"authorize", "load", "authenticate", "save", "authorized", "start"}
    /\ ~connected
    /\ connected' = TRUE
    /\ UNCHANGED <<procVars, envVars, authVars, authClient, calendar, tasks,
                   registered, now, inv>>

NextAnyOrder ==
    \/ Startup
    \/ StartAnytime
    \/ Tick
    \/ \E name \in ToolNames : \E args \in RawArgs(name) : Invoke(1, name, args)
    \/ \E data \in AllResponses : BackendReturn(1, data)
    \/ \E error \in BackendErrors : BackendThrow(1, error)
    \/ Respond(1)

SpecAnyOrder == Init /\ [][NextAnyOrder]_vars

(***************************************************************************)
(* Properties.                                                             *)
(***************************************************************************)
\* What a finished invocation reported.
Failed(r) == r.st = "done" /\ r.outcome.kind = "error"
Succeeded(r) == r.st = "done" /\ r.outcome.kind = "result"
ErrorCode(r) == r.outcome.error.js.v.code.v
ErrorMessage(r) == r.outcome.error.js.v.message.v
\* The raw arguments fail the schema of the tool.
FailsSchema(r) == Issues(SchemaOf(r.op), Coalesce(r.raw, EmptyObj)) # <<>>
\* The payload a successful invocation returned (the parsed JSON text).
Payload(r) == r.outcome.content[1].text

\* C1: an invocation whose raw arguments fail the tool's schema ends with
\* InvalidParams, its handler is never entered and it issues no backend
\* call; list-events with maxResults 5000 is such an invocation.
C1_InvalidArgumentsNeverReachHandler ==
    \A i \in Slots :
        LET r == inv[i]
        IN  /\ (r.st # "idle" /\ FailsSchema(r)) =>
                  /\ Failed(r)
                  /\ ErrorCode(r) = "InvalidParams"
                  /\ ~r.entered
                  /\ r.calls = <<>>
            /\ (r.st # "idle" /\ r.op \in {"list-events", "list-event-instances"}
                  /\ r.raw.t = "obj" /\ Get(r.raw, "maxResults").t = "num"
                  /\ Get(r.raw, "maxResults").v > 2500) =>
                  /\ Failed(r)
                  /\ ErrorCode(r) = "InvalidParams"
                  /\ ~r.entered
                  /\ r.calls = <<>>

C1_Witness ==
    \E i \in Slots :
        /\ inv[i].op = "list-events"
        /\ inv[i].raw = Obj([maxResults |-> Num(5000)])
        /\ Failed(inv[i])
        /\ ErrorCode(inv[i]) = "InvalidParams"
        /\ ErrorMessage(inv[i]) = "Number must be less than or equal to 2500"

\* C2: an error raised during an invocation reaches the caller converted:
\* an McpError unchanged, a ZodError as InvalidParams, any other object
\* with a message as InternalError carrying that message, anything else as
\* InternalError with the generic message; an invocation during which an
\* error was raised never ends with a result, and one that ends with an
\* error had one raised.
C2_RaisedErrorsReachCallerConverted ==
    \A i \in Slots :
        LET r == inv[i]
            e == r.raised
        IN  /\ (r.st # "idle" /\ e.cls # "nothing") => Failed(r)
            /\ Failed(r) =>
                  /\ e.cls # "nothing"
                  /\ r.outcome.error.cls = "McpError"
                  /\ ErrorCode(r) \in {"InvalidParams", "InternalError"}
                  /\ CASE e.cls = "McpError" -> r.outcome.error = e
                       [] e.cls = "ZodError" ->
                            /\ ErrorCode(r) = "InvalidParams"
                            /\ e = ZodError(<<"bad", "worse">>) =>
                                  ErrorMessage(r) = "bad; worse"
                       [] e.cls = "Error" ->
                            /\ ErrorCode(r) = "InternalError"
                            /\ ErrorMessage(r) = e.js.v.message.v
                       [] e.cls = "Object" /\ e.js = Obj([message |-> Num(5)]) ->
                            /\ ErrorCode(r) = "InternalError"
                            /\ ErrorMessage(r) = "5"
                       [] OTHER ->
                            /\ ErrorCode(r) = "InternalError"
                            /\ ErrorMessage(r) = "Unexpected error executing tool"

C2_Witness ==
    \E i \in Slots :
        /\ inv[i].op = "delete-event"
        /\ Len(inv[i].calls) = 1
        /\ inv[i].raised = McpError("InvalidParams", "upstream")
        /\ Failed(inv[i])
        /\ inv[i].outcome.error = McpError("InvalidParams", "upstream")

\* C3: search-events issues its calls one at a time in the order of
\* calendarIds; on success the calendars list has one entry per identifier
\* in that order; when a call fails no further call is issued and the
\* invocation reports InternalError, with no result.
C3_SearchEventsSequentialAllOrNothing ==
    \A i \in Slots :
        LET r == inv[i]
            ids == Get(r.input, "calendarIds").v
        IN  (r.op = "search-events" /\ r.entered) =>
              /\ Len(r.calls) <= Len(r.responses) + 1
              /\ Len(r.calls) <= Len(ids)
              /\ \A k \in 1..Len(r.calls) :
                    /\ r.calls[k].api = "events.list"
                    /\ Get(r.calls[k].params, "calendarId") = ids[k]
              /\ Succeeded(r) =>
                    /\ Len(r.calls) = Len(ids)
                    /\ Len(Get(Payload(r), "calendars").v) = Len(ids)
                    /\ \A k \in 1..Len(ids) :
                          Get(Get(Payload(r), "calendars").v[k], "calendarId") = ids[k]
              /\ r.raised.cls # "nothing" =>
                    /\ Failed(r)
                    /\ ErrorCode(r) = "InternalError"
                    /\ Len(r.calls) = Len(r.responses) + 1

C3_Witness ==
    \E i \in Slots :
        /\ inv[i].op = "search-events"
        /\ inv[i].entered
        /\ Get(inv[i].input, "calendarIds") = Arr(<<Str("a"), Str("b")>>)
        /\ Len(inv[i].responses) = 1
        /\ Len(inv[i].calls) = 2
        /\ inv[i].raised = JsError("Not Found")
        /\ Failed(inv[i])
        /\ ErrorCode(inv[i]) = "InternalError"

\* C4: an invocation whose arguments validate performs exactly one backend
\* call (one while it waits, still one when it has ended, whether the call
\* returned or threw), except search-events, which performs at most one per
\* requested calendar identifier.
C4_OneBackendCallPerInvocation ==
    \A i \in Slots :
        LET r == inv[i]
        IN  (r.st # "idle" /\ ~FailsSchema(r)) =>
              IF r.op = "search-events"
              THEN Len(r.calls) \in 1..Len(Get(r.input, "calendarIds").v)
              ELSE Len(r.calls) = 1

C4_Witness ==
    \E i \in Slots :
        /\ inv[i].op = "create-event"
        /\ inv[i].raised = JsError("Rate Limit Exceeded")
        /\ Failed(inv[i])
        /\ Len(inv[i].calls) = 1
\* The request body of the first backend call of an invocation.
RequestBody(r) == Get(r.calls[1].params, "requestBody")

\* The arguments that name the entity an update is about.
Identifiers == {"calendarId", "eventId", "instanceId", "tasklistId", "taskId"}
UpdateTools == {"update-event", "update-event-instance", "update-task"}

\* C5 as stated: the patch body of update-event, update-event-instance and
\* update-task carries a field only if the caller supplied that field, and
\* is empty when the caller supplied identifiers only.
C5_PatchCarriesOnlySuppliedFields ==
    \A i \in Slots :
        LET r == inv[i]
        IN  (r.op \in UpdateTools /\ r.entered) =>
              /\ \A k \in DOMAIN RequestBody(r).v : Has(r.raw, k)
              /\ DOMAIN r.raw.v \subseteq Identifiers => DOMAIN RequestBody(r).v = {}

\* C5 amended: the patch body carries a field only if the caller supplied
\* that field, except that update-task also carries completed when the
\* caller supplied status completed; it is empty when the caller supplied
\* identifiers only.
C5_PatchCarriesSuppliedFieldsAndCompletion ==
    \A i \in Slots :
        LET r == inv[i]
        IN  (r.op \in UpdateTools /\ r.entered) =>
              /\ \A k \in DOMAIN RequestBody(r).v :
                    \/ Has(r.raw, k)
                    \/ /\ r.op = "update-task"
                       /\ k = "completed"
                       /\ Get(r.raw, "status") = Str("completed")
              /\ DOMAIN r.raw.v \subseteq Identifiers => DOMAIN RequestBody(r).v = {}

C5_Witness ==
    \E i \in Slots :
        /\ inv[i].op = "update-event"
        /\ inv[i].entered
        /\ DOMAIN inv[i].raw.v = {"eventId", "location", "sendUpdates"}
        /\ inv[i].calls[1].api = "events.patch"
        /\ RequestBody(inv[i]) = Obj([location |-> Str("S")])

\* The strings of the model that have the shape YYYY-MM-DD.
IsCalendarDate(s) == s \in {"2024-01-10", "2024-01-11"}
DatedTools == {"create-event", "update-event", "update-event-instance"}

\* C6 as stated: create-event, update-event and update-event-instance send
\* a start or end of the shape YYYY-MM-DD as a date, any other as a
\* dateTime, with timeZone exactly when the caller supplied a time zone;
\* never a date and a dateTime together.
C6_TimeZoneAddedIffSupplied ==
    \A i \in Slots :
        LET r == inv[i]
        IN  (r.op \in DatedTools /\ r.entered) =>
              \A f \in {"start", "end"} :
                  Has(r.raw, f) =>
                    LET value == Get(r.raw, f)
                        sent == Get(RequestBody(r), f)
                    IN  /\ ~({"date", "dateTime"} \subseteq DOMAIN sent.v)
                        /\ IF IsCalendarDate(value.v)
                           THEN sent = Obj([date |-> value])
                           ELSE /\ Get(sent, "dateTime") = value
                                /\ DOMAIN sent.v \subseteq {"dateTime", "timeZone"}
                                /\ "timeZone" \in DOMAIN sent.v <=> Has(r.raw, "timeZone")
                                /\ "timeZone" \in DOMAIN sent.v =>
                                      sent.v.timeZone = Get(r.raw, "timeZone")

\* C6 amended: as above, with timeZone exactly when the caller supplied a
\* time zone that is not the empty string.
C6_TimeZoneAddedIffSuppliedNonEmpty ==
    \A i \in Slots :
        LET r == inv[i]
        IN  (r.op \in DatedTools /\ r.entered) =>
              \A f \in {"start", "end"} :
                  Has(r.raw, f) =>
                    LET value == Get(r.raw, f)
                        sent == Get(RequestBody(r), f)
                    IN  /\ ~({"date", "dateTime"} \subseteq DOMAIN sent.v)
                        /\ IF IsCalendarDate(value.v)
                           THEN sent = Obj([date |-> value])
                           ELSE /\ Get(sent, "dateTime") = value
                                /\ DOMAIN sent.v \subseteq {"dateTime", "timeZone"}
                                /\ "timeZone" \in DOMAIN sent.v <=>
                                      (Has(r.raw, "timeZone")
                                         /\ Get(r.raw, "timeZone") # Str(""))
                                /\ "timeZone" \in DOMAIN sent.v =>
                                      sent.v.timeZone = Get(r.raw, "timeZone")

C6_Witness ==
    \E i \in Slots :
        /\ inv[i].op = "update-event-instance"
        /\ inv[i].entered
        /\ Get(inv[i].raw, "start") = dateTime1
        /\ Get(inv[i].raw, "timeZone") = Str("")
        /\ Get(RequestBody(inv[i]), "start") = Obj([dateTime |-> dateTime1])

\* C7: update-task with status completed and complete-task send, as
\* completed, the reading of the clock taken during the invocation, whatever
\* the caller supplied (a completed or a due value included); update-task
\* with status absent or needsAction sends no completed field.
C7_CompletedIsTheClockReading ==
    \A i \in Slots :
        LET r == inv[i]
        IN  /\ (r.op = "complete-task" /\ r.entered) =>
                  Get(RequestBody(r), "completed") = toISOString(r.at)
            /\ (r.op = "update-task" /\ r.entered) =>
                  IF Get(r.input, "status") = Str("completed")
                  THEN Get(RequestBody(r), "completed") = toISOString(r.at)
                  ELSE "completed" \notin DOMAIN RequestBody(r).v

C7_Witness ==
    \E i \in Slots :
        /\ inv[i].op = "update-task"
        /\ inv[i].entered
        /\ inv[i].at = 1
        /\ Get(inv[i].raw, "completed") = Str("1999-01-01T00:00:00.000Z")
        /\ Get(inv[i].raw, "status") = Str("completed")
        /\ Get(RequestBody(inv[i]), "completed") = Str("1970-01-01T00:00:00.001Z")

\* authorize has thrown: the process has ended without a client.
AuthorizeFailed ==
    pc = "exited" /\ command \in {"start", "auth"} /\ authResult = Undefined

\* C8: no tool is registered, and none is invoked, before authorize has
\* resolved with a client; when authorize fails no tool is registered, the
\* transport is never connected, and the error is written with exit code 1.
C8_NoRegistrationBeforeAuthorization ==
    /\ registered # {} => (authResult # Undefined /\ pc \in {"start", "serving"})
    /\ connected => registered = ToolNames
    /\ \A i \in Slots : inv[i].st # "idle" => authResult # Undefined
    /\ AuthorizeFailed =>
          /\ registered = {}
          /\ ~connected
          /\ exitCode = 1
          /\ Len(stderr) = 1
          /\ \A i \in Slots : inv[i].st = "idle"

C8_Witness ==
    /\ AuthorizeFailed
    /\ command = "start"
    /\ interactive = "failed"
    /\ exitCode = 1
    /\ registered = {}

\* C9 as stated: authorize fails only when no credential source is
\* configured or when the interactive flow fails; once the interactive flow
\* has succeeded authorize returns a credential.
C9_FailsOnlyWithoutSourceOrFlow ==
    /\ AuthorizeFailed => (~Truthy(credentialsEnv) \/ interactive = "failed")
    /\ (interactive = "ok" /\ pc \notin {"save"}) => authResult # Undefined

\* C9 amended: authorize fails only when no credential source is
\* configured, when the interactive flow fails, or when saveCredentials
\* throws after the flow has succeeded; the token cache, whatever its state,
\* never makes it fail (a failure with the source configured comes from the
\* interactive flow or after it); once the token cache has been written
\* authorize returns a credential.
C9_FailsOnlyWithoutSourceFlowOrSave ==
    /\ AuthorizeFailed =>
          \/ ~Truthy(credentialsEnv)
          \/ interactive = "failed"
          \/ /\ interactive = "ok"
             /\ tokenWrites = 0
             /\ ~tokenWritable \/ keyfile \notin {"installed", "web"}
    /\ (AuthorizeFailed /\ Truthy(credentialsEnv)) => interactive # "notrun"
    /\ (tokenFile # "valid" /\ pc \notin {"run", "authorize", "load"}
          /\ Truthy(credentialsEnv) /\ command \in {"start", "auth"}) =>
          (pc = "authenticate" \/ interactive # "notrun")
    /\ tokenWrites > 0 => (interactive = "ok" /\ authResult = Str("fresh"))

C9_Witness ==
    /\ AuthorizeFailed
    /\ Truthy(credentialsEnv)
    /\ tokenFile = "malformed"
    /\ interactive = "ok"
    /\ ~tokenWritable
    /\ exitCode = 1

\* The events a successful invocation returned, each with the raw backend
\* entity it was made from.
ReturnedEvents(r) ==
    CASE r.op = "list-events" ->
           {<<Get(Payload(r), "events").v[k], Get(r.responses[1], "items").v[k]>> :
              k \in 1..Len(Get(Payload(r), "events").v)}
      [] r.op = "list-event-instances" ->
           {<<Get(Payload(r), "instances").v[k], Get(r.responses[1], "items").v[k]>> :
              k \in 1..Len(Get(Payload(r), "instances").v)}
      [] r.op = "search-events" ->
           UNION {{<<Get(Get(Payload(r), "calendars").v[j], "events").v[k],
                     Get(r.responses[j], "items").v[k]>> :
                     k \in 1..Len(Get(Get(Payload(r), "calendars").v[j], "events").v)} :
                  j \in 1..Len(Get(Payload(r), "calendars").v)}
      [] r.op \in {"create-event", "update-event", "update-event-instance"} ->
           {<<Get(Payload(r), "event"), r.responses[1]>>}
      [] OTHER -> {}

\* The event carries every key of the fixed set, null where the raw entity
\* has no value.
Normalized(event, raw) ==
    /\ DOMAIN event.v = EventKeys
    /\ \A k \in EventKeys :
          event.v[k] = IF Get(raw, k).t \in {"undefined", "null"} THEN Null
                       ELSE Get(raw, k)

DeleteTools == {"delete-event", "delete-event-instance", "delete-task"}
\* The collection a delete names: the caller's, or the default of the schema.
NamedOrDefault(r, key, default) ==
    IF Has(r.raw, key) THEN Get(r.raw, key) ELSE Str(default)

\* C11: delete-event, delete-event-instance and delete-task return exactly
\* {success: true} once the backend delete has returned, whatever it
\* returned; delete-event-instance calls events.delete as delete-event
\* does, with the caller's instanceId as eventId and the same calendarId.
C11_DeletesAcknowledgeAndShareTheCall ==
    \A i \in Slots :
        LET r == inv[i]
            params == r.calls[1].params
        IN  /\ (r.op \in DeleteTools /\ Succeeded(r)) =>
                  /\ Len(r.responses) = 1
                  /\ Payload(r) = Obj([success |-> Bool(TRUE)])
            /\ (r.op = "delete-event" /\ r.entered) =>
                  /\ r.calls[1].api = "events.delete"
                  /\ Get(params, "eventId") = Get(r.raw, "eventId")
                  /\ Get(params, "calendarId") = NamedOrDefault(r, "calendarId", "primary")
            /\ (r.op = "delete-event-instance" /\ r.entered) =>
                  /\ r.calls[1].api = "events.delete"
                  /\ Get(params, "eventId") = Get(r.raw, "instanceId")
                  /\ Get(params, "calendarId") = NamedOrDefault(r, "calendarId", "primary")
                  /\ DOMAIN params.v = {"calendarId", "eventId", "sendUpdates"}
            /\ (r.op = "delete-task" /\ r.entered) =>
                  /\ r.calls[1].api = "tasks.delete"
                  /\ Get(params, "task") = Get(r.raw, "taskId")

C11_Witness ==
    \E i \in Slots :
        /\ inv[i].op = "delete-event-instance"
        /\ inv[i].raw = Obj([instanceId |-> Str("evt_20240110"), calendarId |-> Str("work")])
        /\ Get(inv[i].calls[1].params, "eventId") = Str("evt_20240110")
        /\ Get(inv[i].calls[1].params, "calendarId") = Str("work")
        /\ inv[i].responses = <<event1>>
        /\ Succeeded(inv[i])
        /\ Payload(inv[i]) = Obj([success |-> Bool(TRUE)])

\* C12: on create-event, update-event and update-event-instance every
\* override is sent with its minutes unchanged and with its method, popup
\* when it has none; useDefault is sent as given; when useDefault is absent
\* and overrides is absent or empty the request carries no reminders value
\* (never an empty structure), and a request without reminders carries none.
C12_RemindersMappedOrOmitted ==
    /\ mapReminders(Obj([overrides |-> Arr(<<>>)])) = Undefined
    /\ \A i \in Slots :
        LET r == inv[i]
            given == Get(r.raw, "reminders")
            sent == Get(RequestBody(r), "reminders")
        IN  (r.op \in DatedTools /\ r.entered) =>
              IF given = Undefined THEN sent = Undefined
              ELSE LET useDefault == Get(given, "useDefault")
                       overrides == Get(given, "overrides")
                       none == overrides = Undefined \/ Len(overrides.v) = 0
                   IN  /\ (useDefault = Undefined /\ none) => sent = Undefined
                       /\ sent # Undefined => DOMAIN sent.v # {}
                       /\ useDefault # Undefined => Get(sent, "useDefault") = useDefault
                       /\ ~none =>
                             /\ Len(Get(sent, "overrides").v) = Len(overrides.v)
                             /\ \A j \in 1..Len(overrides.v) :
                                   LET o == overrides.v[j]
                                       m == Get(sent, "overrides").v[j]
                                   IN  /\ Get(m, "minutes") = Get(o, "minutes")
                                       /\ Get(m, "method") =
                                            IF Has(o, "method")
                                            THEN Get(o, "method")
                                            ELSE Str("popup")
                       /\ (sent # Undefined /\ none) => ~Has(sent, "overrides")

C12_Witness ==
    \E i \in Slots :
        /\ inv[i].op = "update-event-instance"
        /\ inv[i].entered
        /\ Get(inv[i].raw, "reminders") =
             Obj([overrides |-> Arr(<<Obj([minutes |-> Num(30)]),
                                      Obj([method |-> Str("email"),
                                           minutes |-> Num(0)])>>)])
        /\ Get(RequestBody(inv[i]), "reminders") =
             Obj([overrides |-> Arr(<<Obj([method |-> Str("popup"), minutes |-> Num(30)]),
                                      Obj([method |-> Str("email"),
                                           minutes |-> Num(0)])>>)])

\* The mapping has at least one key.
NonEmptyMapping(m) == m # Undefined /\ DOMAIN m.v # {}

\* C13: the request carries no extendedProperties value unless private or
\* shared has at least one key; when it carries one, private is there
\* exactly when private has a key and shared exactly when shared has a
\* key, each as the caller gave it.
C13_ExtendedPropertiesNonEmptyOrOmitted ==
    \A i \in Slots :
        LET r == inv[i]
            given == Get(r.raw, "extendedProperties")
            sent == Get(RequestBody(r), "extendedProperties")
        IN  (r.op \in DatedTools /\ r.entered) =>
              IF given = Undefined THEN sent = Undefined
              ELSE LET private == Get(given, "private")
                       shared == Get(given, "shared")
                   IN  IF ~NonEmptyMapping(private) /\ ~NonEmptyMapping(shared)
                       THEN sent = Undefined
                       ELSE /\ sent # Undefined
                            /\ Keys(sent) \subseteq {"private", "shared"}
                            /\ Has(sent, "private") <=> NonEmptyMapping(private)
                            /\ Has(sent, "shared") <=> NonEmptyMapping(shared)
                            /\ Has(sent, "private") => Get(sent, "private") = private
                            /\ Has(sent, "shared") => Get(sent, "shared") = shared

C13_Witness ==
    \E i \in Slots :
        /\ inv[i].op = "create-event"
        /\ inv[i].entered
        /\ Get(inv[i].raw, "extendedProperties") =
             Obj([private |-> EmptyObj, shared |-> Obj([k2 |-> Str("v2")])])
        /\ Keys(Get(RequestBody(inv[i]), "extendedProperties")) = {"shared"}
        /\ Get(Get(RequestBody(inv[i]), "extendedProperties"), "shared") =
             Obj([k2 |-> Str("v2")])

\* C14: the conferenceDataVersion option of create-event, update-event and
\* update-event-instance is 1 exactly when the validated request carries
\* conferenceData, whatever value the schema accepted for it (an object
\* without members and a list included), and is unset otherwise; a value
\* the schema rejects reaches no backend call.
C14_ConferenceVersionIffConferenceData ==
    \A i \in Slots :
        LET r == inv[i]
        IN  /\ (r.op \in DatedTools /\ r.entered) =>
                  /\ Get(r.input, "conferenceData") = Get(r.raw, "conferenceData")
                  /\ Get(r.calls[1].params, "conferenceDataVersion") =
                       IF Has(r.raw, "conferenceData") THEN Num(1) ELSE Undefined
            /\ (r.op \in DatedTools /\ r.st # "idle"
                  /\ Get(r.raw, "conferenceData") \in {Null, Str("meet")}) =>
                  /\ ~r.entered
                  /\ r.calls = <<>>

C14_Witness ==
    \E i \in Slots :
        /\ inv[i].op = "update-event"
        /\ inv[i].entered
        /\ Get(inv[i].raw, "conferenceData") = EmptyObj
        /\ inv[i].calls[1].api = "events.patch"
        /\ Get(inv[i].calls[1].params, "conferenceDataVersion") = Num(1)

\* C15: the supportsAttachments option of create-event, update-event and
\* update-event-instance is set exactly when the request carries an
\* attachment list with at least one element; without a list, or with an
\* empty one, it is unset.
C15_SupportsAttachmentsIffNonEmptyList ==
    \A i \in Slots :
        LET r == inv[i]
            given == Get(r.raw, "attachments")
        IN  (r.op \in DatedTools /\ r.entered) =>
              Get(r.calls[1].params, "supportsAttachments") =
                IF given # Undefined /\ Len(given.v) >= 1 THEN Bool(TRUE) ELSE Undefined

C15_Witness ==
    \E i \in Slots :
        /\ inv[i].op = "create-event"
        /\ inv[i].entered
        /\ Get(inv[i].raw, "attachments") =
             Arr(<<Obj([fileUrl |-> Str("https://x.org/f")])>>)
        /\ Get(inv[i].calls[1].params, "supportsAttachments") = Bool(TRUE)

\* What an invocation running alone makes of the responses it received:
\* its search results, its requests and its result.
OwnEntries(r) ==
    IF r.op = "search-events"
    THEN [k \in 1..Len(r.responses) |->
            searchEventsEntry(Get(r.input, "calendarIds").v[k], r.responses[k])]
    ELSE <<>>
OwnCalls(r) ==
    IF r.op = "search-events"
    THEN [k \in 1..Len(r.calls) |-> searchEventsRequest(r.input, k)]
    ELSE <<FirstRequest(r.op, r.input, r.at)>>
OwnResult(r) ==
    HandlerResult(r.op, r.input, OwnEntries(r), r.responses[Len(r.responses)])

RunsAsIfAlone ==
    \A i \in Slots :
        LET r == inv[i]
        IN  r.entered =>
              /\ r.calls = OwnCalls(r)
              /\ r.results = OwnEntries(r)
              /\ Succeeded(r) => r.outcome.content = toJsonContent(OwnResult(r))
              /\ Failed(r) => r.raised.cls # "nothing"

\* A step leaves the connection objects, once assigned, as they are; a step
\* of an invocation changes that invocation and nothing else.
ConnectionsKept ==
    /\ authClient # Undefined => authClient' = authClient
    /\ calendar # Undefined => calendar' = calendar
    /\ tasks # Undefined => tasks' = tasks
    /\ inv' # inv =>
          /\ Cardinality({i \in Slots : inv'[i] # inv[i]}) = 1
          /\ UNCHANGED <<procVars, envVars, authVars, serverVars>>

\* C16: the connection objects are assigned during initialization and
\* never again, a step of an invocation changes nothing but that
\* invocation, and under every interleaving of the invocations in flight
\* at their backend calls each invocation's requests and result are those
\* it makes alone of the responses it received (the results of one
\* search-events never hold an entry of another).
C16_InvocationsShareNothing == []RunsAsIfAlone /\ [][ConnectionsKept]_vars

C16_Witness ==
    /\ inv[1].op = "search-events"
    /\ inv[1].st = "awaiting"
    /\ Len(inv[1].results) = 1
    /\ Len(Get(inv[1].results[1], "events").v) = 2
    /\ inv[2].op = "search-events"
    /\ Succeeded(inv[2])
    /\ Get(inv[2].input, "calendarIds") = Arr(<<Str("c")>>)
    /\ Get(Payload(inv[2]), "totalEvents") = Num(0)
    /\ Len(Get(Payload(inv[2]), "calendars").v) = 1

\* complete-task has been called in the slot and has sent its request.
Completing(i) == inv[i].op = "complete-task" /\ inv[i].entered

\* C17 as stated: complete-task sends exactly {status: "completed",
\* completed: the timestamp of the call} and two consecutive complete-task
\* invocations send different completed timestamps.
C17_ConsecutiveTimestampsDiffer ==
    /\ \A i \in {1, 2} :
          Completing(i) =>
            RequestBody(inv[i]) = Obj([status |-> Str("completed"),
                                       completed |-> toISOString(inv[i].at)])
    /\ (Completing(1) /\ Completing(2)) =>
          Get(RequestBody(inv[1]), "completed") # Get(RequestBody(inv[2]), "completed")

\* C17 amended: complete-task sends exactly {status: "completed",
\* completed: the timestamp of the call}, nothing of what the caller sent,
\* and two consecutive complete-task invocations send different completed
\* timestamps exactly when the clock reads differently at the two calls.
C17_TimestampsDifferWhenClockDiffers ==
    /\ \A i \in {1, 2} :
          Completing(i) =>
            /\ DOMAIN RequestBody(inv[i]).v = {"status", "completed"}
            /\ Get(RequestBody(inv[i]), "status") = Str("completed")
            /\ Get(RequestBody(inv[i]), "completed").t = "str"
            /\ Len(Get(RequestBody(inv[i]), "completed").v) = 24
            /\ inv[i].at = 1 =>
                  Get(RequestBody(inv[i]), "completed") = Str("1970-01-01T00:00:00.001Z")
    /\ (Completing(1) /\ Completing(2)) =>
          /\ inv[1].at <= inv[2].at
          /\ (Get(RequestBody(inv[1]), "completed") # Get(RequestBody(inv[2]), "completed"))
               <=> inv[1].at # inv[2].at

C17_Witness ==
    /\ Completing(1)
    /\ Completing(2)
    /\ inv[1].st = "done"
    /\ inv[1].at = 1
    /\ inv[2].at = 2
    /\ inv[2].raw = Obj([taskId |-> Str("t2"), tasklistId |-> Str("l1"), notes |-> Str("n"),
                         completed |-> Str("1999-01-01T00:00:00.000Z")])
    /\ RequestBody(inv[1]) = Obj([status |-> Str("completed"),
                                  completed |-> Str("1970-01-01T00:00:00.001Z")])
    /\ RequestBody(inv[2]) = Obj([status |-> Str("completed"),
                                  completed |-> Str("1970-01-01T00:00:00.002Z")])

NotInitializedMessages ==
    {"Google Calendar client is not initialized",
     "Google Tasks client is not initialized"}

\* C18: whenever a tool is registered, and whenever an invocation is under
\* way or has ended, both clients are assigned; no invocation raises or
\* reports the error of ensureCalendar or ensureTasks, whether start is
\* called after initialize, before it, or while it awaits authorize.
C18_ClientsAssignedBeforeAnyHandler ==
    /\ registered # {} => (Truthy(calendar) /\ Truthy(tasks))
    /\ \A i \in Slots :
          LET r == inv[i]
          IN  r.st # "idle" =>
                /\ Truthy(calendar)
                /\ Truthy(tasks)
                /\ r.raised.cls = "McpError" =>
                      r.raised.js.v.message.v \notin NotInitializedMessages
                /\ Failed(r) => ErrorMessage(r) \notin NotInitializedMessages

C18_Witness ==
    /\ pc = "start"
    /\ connected
    /\ inv[1].op = "delete-task"
    /\ inv[1].entered
    /\ Succeeded(inv[1])
    /\ tasks = Str("tasks_v1")

\* authorize has got past loadSavedCredentialsIfExist.
PastLoad == command \in {"start", "auth"} /\ pc \notin {"run", "authorize", "load"}

\* C19: with the credentials variable set and a token cache that holds
\* both client fields, authorize returns the cached client, the interactive
\* flow is not started and the token file is not written; the interactive
\* flow is started only when the cache yields no client, and the token file
\* is written, once, only after the interactive flow has succeeded.
C19_CachedClientSkipsFlowAndWrite ==
    /\ (PastLoad /\ Truthy(credentialsEnv) /\ tokenFile = "valid" /\ tokenWrites = 0) =>
          /\ authResult = Str("cached")
          /\ interactive = "notrun"
    /\ authResult = Str("cached") =>
          /\ tokenFile = "valid"
          /\ tokenWrites = 0
          /\ interactive = "notrun"
    /\ (pc \in {"authenticate", "save"} \/ interactive # "notrun") =>
          /\ Truthy(credentialsEnv)
          /\ authResult # Str("cached")
          /\ tokenWrites = 0 => tokenFile # "valid"
    /\ tokenWrites > 0 =>
          /\ tokenWrites = 1
          /\ interactive = "ok"
          /\ tokenFile = "valid"
          /\ authResult = Str("fresh")

C19_Witness ==
    /\ pc = "serving"
    /\ Truthy(credentialsEnv)
    /\ authResult = Str("cached")
    /\ authClient = Str("cached")
    /\ interactive = "notrun"
    /\ tokenWrites = 0
====
